---- MODULE Spec2Model ----
(***************************************************************************)
(* Optical-fibre loss simulation scripts (sim1 .. sim13).                  *)
(*                                                                         *)
(* Numbers.  The scripts compute in IEEE doubles; the model computes in    *)
(* fixed point, every quantity an integer number of the unit below, every  *)
(* division rounding down once at the place the script divides:            *)
(*   loss            micro-dB   (1e-6 dB)                                  *)
(*   fibre length    1/Den km   (Den = NumSamples - 1, so that every       *)
(*                               np.linspace sample is an integer)         *)
(*   bend radius     1/RDen cm  (RDen = 10 * Den: tenths of a cm and       *)
(*                               every np.linspace sample are integers)    *)
(*   temperature     degrees C                                             *)
(*   current         nA         (1e-3 uA)                                  *)
(*   refractive idx  1e-4,  core radius 1e-8 m,  wavelength nm             *)
(* A float result is a record [k, v, e]: k = "num" (v the value),          *)
(* "inf" (v = +1 or -1), "nan", "complex", or "raise" (e the exception).   *)
(***************************************************************************)
EXTENDS Integers, Sequences, FiniteSets, TLC

VARIABLES
    variant,           \* which script is running: "sim8", "sim11" or "sim13"
    fiber_type_var,    \* tk.StringVar holding the selected fibre type
    length_sim_data,   \* module-level buffer of the last length sweep
    bending_sim_data,  \* module-level buffer of the last bend-radius sweep
    turns_sim_data,    \* module-level buffer of the last turn-count sweep
    rng,               \* position of the process-global numpy generator
    lastRun,           \* history: the request and outcome of the last handler
    runs,              \* history: number of sweep handlers run so far
    args,              \* the arguments of a direct function call
    ret,               \* what that call returned
    pc,                \* "idle" | "loop" | "done"
    frame              \* local variables of the call while it runs

vars == <<variant, fiber_type_var, length_sim_data, bending_sim_data,
          turns_sim_data, rng, lastRun, runs, args, ret, pc, frame>>

guiVars == <<variant, fiber_type_var, length_sim_data, bending_sim_data,
             turns_sim_data, rng, lastRun, runs>>

callVars == <<args, ret, pc, frame>>

-----------------------------------------------------------------------------
(* Float values                                                            *)

Num(x) == [k |-> "num", v |-> x, e |-> ""]
Inf(s) == [k |-> "inf", v |-> s, e |-> ""]
NaN == [k |-> "nan", v |-> 0, e |-> ""]
Complex == [k |-> "complex", v |-> 0, e |-> ""]
Raise(err) == [k |-> "raise", v |-> 0, e |-> err]

Abs(x) == IF x < 0 THEN -x ELSE x

Sign(x) == IF x < 0 THEN -1 ELSE IF x > 0 THEN 1 ELSE 0

\* a + b on floats.
Plus(a, b) ==
    CASE a.k = "raise" -> a
      [] b.k = "raise" -> b
      [] a.k = "complex" \/ b.k = "complex" -> Complex
      [] a.k = "nan" \/ b.k = "nan" -> NaN
      [] a.k = "inf" /\ b.k = "inf" -> IF a.v = b.v THEN a ELSE NaN
      [] a.k = "inf" -> a
      [] b.k = "inf" -> b
      [] OTHER -> Num(a.v + b.v)

\* n * a for an integer n and a float a.
Times(n, a) ==
    CASE a.k = "num" -> Num(n * a.v)
      [] a.k = "inf" -> IF n = 0 THEN NaN ELSE Inf(Sign(n) * a.v)
      [] OTHER -> a

\* (a * f) / 10^6 for 0 <= f, without leaving 32 bits.
MulMicro(a, f) ==
    LET ah == a \div 1000
        al == a % 1000
        fh == f \div 1000
        fl == f % 1000
    IN  ah * fh + (ah * fl + al * fh) \div 1000 + (al * fl) \div 1000000

RECURSIVE ISqrtIn(_, _, _)
\* The largest r in lo..hi with r * r <= n, given lo * lo <= n.
ISqrtIn(n, lo, hi) ==
    IF lo >= hi THEN lo
    ELSE LET mid == (lo + hi + 1) \div 2
         IN  IF mid * mid <= n THEN ISqrtIn(n, mid, hi) ELSE ISqrtIn(n, lo, mid - 1)

\* floor(sqrt(n)), 0 <= n < 2^30.
ISqrt(n) == ISqrtIn(n, 0, 32767)

-----------------------------------------------------------------------------
(* Module-level constants of the scripts                                   *)

NumSamples == 100
Den == NumSamples - 1
RDen == 10 * Den

I_in == 1000
default_turns == 5
bend_angle == 90
room_temperature == 25

\* dB/km/degree, in micro-dB: 0.0002 in sim8 and sim11, 0.0000 in sim13.
temp_coefficient(v) == IF v = "sim13" THEN 0 ELSE 200

\* fraction, in percent: 0.02 in sim8 and sim11, 0.00 in sim13.
noise_std(v) == IF v = "sim13" THEN 0 ELSE 2

Variants == {"sim8", "sim11", "sim13"}

-----------------------------------------------------------------------------
(* Fibre catalogues                                                        *)

\* sim8 and sim11: attenuation (micro-dB/km), base bending loss (micro-dB),
\* ideal bend radius (1/RDen cm).
fiber_types ==
    [n \in {"G.652D", "G.657A", "G.655", "G.652C", "G.657B"} |->
       CASE n = "G.652D" -> [attenuation_coeff |-> 200000, base_bending_loss |-> 100000,
                             ideal_bend_radius |-> 5 * RDen]
         [] n = "G.657A" -> [attenuation_coeff |-> 180000, base_bending_loss |-> 50000,
                             ideal_bend_radius |-> 3 * RDen]
         [] n = "G.655"  -> [attenuation_coeff |-> 220000, base_bending_loss |-> 150000,
                             ideal_bend_radius |-> 5 * RDen]
         [] n = "G.652C" -> [attenuation_coeff |-> 220000, base_bending_loss |-> 120000,
                             ideal_bend_radius |-> 5 * RDen]
         [] n = "G.657B" -> [attenuation_coeff |-> 180000, base_bending_loss |-> 30000,
                             ideal_bend_radius |-> (5 * RDen) \div 2]]

\* sim13's catalog with the cladding index of G.655 raised to the core's.
fiber_types13_Unguided ==
    [n \in {"G.652D", "G.655"} |->
        [attenuation_coeff |-> 200000, core_radius |-> 410,
         n1 |-> 14682, n2 |-> IF n = "G.655" THEN 14682 ELSE 14620, wavelength |-> 1550]]

\* sim13: attenuation (micro-dB/km), core radius (1e-8 m), n1, n2 (1e-4),
\* wavelength (nm).
fiber_types13 ==
    [n \in {"G.652D", "G.657A", "G.655", "G.652C", "G.657B", "OM1", "OM3", "OM4"} |->
       CASE n = "G.652D" -> [attenuation_coeff |-> 200000, core_radius |-> 410,
                             n1 |-> 14682, n2 |-> 14620, wavelength |-> 1550]
         [] n = "G.657A" -> [attenuation_coeff |-> 180000, core_radius |-> 410,
                             n1 |-> 14682, n2 |-> 14620, wavelength |-> 1550]
         [] n = "G.655"  -> [attenuation_coeff |-> 220000, core_radius |-> 410,
                             n1 |-> 14682, n2 |-> 14550, wavelength |-> 1550]
         [] n = "G.652C" -> [attenuation_coeff |-> 220000, core_radius |-> 410,
                             n1 |-> 14682, n2 |-> 14620, wavelength |-> 1550]
         [] n = "G.657B" -> [attenuation_coeff |-> 180000, core_radius |-> 410,
                             n1 |-> 14682, n2 |-> 14600, wavelength |-> 1550]
         [] n = "OM1"    -> [attenuation_coeff |-> 3000000, core_radius |-> 3125,
                             n1 |-> 15000, n2 |-> 14600, wavelength |-> 850]
         [] n = "OM3"    -> [attenuation_coeff |-> 3500000, core_radius |-> 2500,
                             n1 |-> 14800, n2 |-> 14600, wavelength |-> 850]
         [] n = "OM4"    -> [attenuation_coeff |-> 3500000, core_radius |-> 2500,
                             n1 |-> 14800, n2 |-> 14600, wavelength |-> 850]]

-----------------------------------------------------------------------------
(* The process-global random generator (np.random)                         *)

\* Standard-normal draws, in whole standard deviations.  The generator is
\* never seeded by the scripts, so its starting position is arbitrary; a
\* draw returns the entry at the current position and advances it by one.
StdNormal == <<2, -2, 0, 1, -1, 1, -2, -5>>

Period == Len(StdNormal)

Draw(r) == StdNormal[(r % Period) + 1]

\* A draw of standard deviation noise_std whatever the level x is.
np_random_normal_Unscaled(pct, x, z) ==
    IF x.k = "raise" THEN x ELSE Num(z * pct)

\* np.random.normal(0, noise_std * x): pct is noise_std in percent, x the
\* float it scales, z the standard draw.  numpy refuses a scale whose sign
\* bit is set (noise_std * x for x < 0, -0.0 included); a nan scale passes.
np_random_normal(pct, x, z) ==
    CASE x.k = "raise" -> x
      [] x.k = "complex" -> Raise("TypeError")
      [] x.k = "nan" -> NaN
      [] x.k = "inf" -> IF x.v < 0 THEN Raise("ValueError")
                        ELSE IF pct = 0 \/ z = 0 THEN NaN
                        ELSE Inf(Sign(z))
      [] OTHER -> IF x.v < 0 THEN Raise("ValueError")
                  ELSE Num(z * ((pct * x.v) \div 100))

-----------------------------------------------------------------------------
(* Empirical bending loss and the composite loss law (sim8, sim11)         *)

\* The same formula with the bend angle normalised to 180 degrees.
bending_loss_Per180(baseline, ideal, bend_radius, bend_angle_deg, np_radius) ==
    IF bend_radius = 0
    THEN IF np_radius THEN Inf(1) ELSE Raise("ZeroDivisionError")
    ELSE Num((((baseline * bend_angle_deg) \div 180) * ideal) \div bend_radius)

\* baseline * (ideal / bend_radius) * (bend_angle_deg / 90.0).  A Python
\* float radius of 0 raises; a numpy float64 radius of 0 (a np.linspace
\* sample) divides to +inf with a warning.
bending_loss(baseline, ideal, bend_radius, bend_angle_deg, np_radius) ==
    IF bend_radius = 0
    THEN IF np_radius THEN Inf(1) ELSE Raise("ZeroDivisionError")
    ELSE Num((((baseline * bend_angle_deg) \div 90) * ideal) \div bend_radius)

\* The same sum without the attenuation term.
total_loss_of_NoAttenuation(v, fiber_length, ambient_temp, attenuation_coeff, n_turns, loss_per_bend) ==
    LET loss_temp == (temp_coefficient(v) * Abs(ambient_temp - room_temperature)
                        * fiber_length) \div Den
        total_bending_loss == Times(n_turns, loss_per_bend)
    IN  Plus(total_bending_loss, Num(loss_temp))

\* The same sum with a temperature term for heating only.
total_loss_of_HeatOnly(v, fiber_length, ambient_temp, attenuation_coeff, n_turns, loss_per_bend) ==
    LET loss_attenuation == (attenuation_coeff * fiber_length) \div Den
        dev == IF ambient_temp > room_temperature THEN ambient_temp - room_temperature ELSE 0
        loss_temp == (temp_coefficient(v) * dev * fiber_length) \div Den
        total_bending_loss == Times(n_turns, loss_per_bend)
    IN  Plus(Plus(Num(loss_attenuation), total_bending_loss), Num(loss_temp))

\* The same sum with the temperature deviation taken with its sign.
total_loss_of_SignedDev(v, fiber_length, ambient_temp, attenuation_coeff, n_turns, loss_per_bend) ==
    LET loss_attenuation == (attenuation_coeff * fiber_length) \div Den
        loss_temp == (temp_coefficient(v) * (ambient_temp - room_temperature)
                        * fiber_length) \div Den
        total_bending_loss == Times(n_turns, loss_per_bend)
    IN  Plus(Plus(Num(loss_attenuation), total_bending_loss), Num(loss_temp))

\* loss_attenuation + total_bending_loss + loss_temp, before any noise.
total_loss_of(v, fiber_length, ambient_temp, attenuation_coeff, n_turns, loss_per_bend) ==
    LET loss_attenuation == (attenuation_coeff * fiber_length) \div Den
        loss_temp == (temp_coefficient(v) * Abs(ambient_temp - room_temperature)
                        * fiber_length) \div Den
        total_bending_loss == Times(n_turns, loss_per_bend)
    IN  Plus(Plus(Num(loss_attenuation), total_bending_loss), Num(loss_temp))

Tenth == <<1000000, 794328, 630957, 501187, 398107, 316228, 251189, 199526, 158489, 125893>>

Hundredth == <<1000000, 977237, 954993, 933254, 912011, 891251, 870964, 851138, 831764, 812831>>

Thousandth == <<1000000, 997700, 995405, 993116, 990832, 988553, 986279, 984011, 981748, 979490>>

RECURSIVE DbToLinear(_)
\* 10 ** (-x / 10) for x in micro-dB, as a ratio in millionths.
DbToLinear(x) ==
    IF x < 0 THEN 10 * DbToLinear(x + 10000000)
    ELSE IF x >= 10000000 THEN DbToLinear(x - 10000000) \div 10
    ELSE LET d1 == x \div 1000000
             d2 == (x % 1000000) \div 100000
             d3 == (x % 100000) \div 10000
             r  == x % 10000
             lin == 1000000 - (2303 * r) \div 10000
         IN  MulMicro(MulMicro(MulMicro(Tenth[d1 + 1], Hundredth[d2 + 1]),
                               Thousandth[d3 + 1]), lin)

\* The conversion held at I_in for a negative loss.
output_current_Clamped(total_loss) ==
    CASE total_loss.k = "num" ->
           IF total_loss.v < 0 THEN Num(I_in * 1000)
           ELSE Num(MulMicro(I_in * 1000, DbToLinear(total_loss.v)))
      [] total_loss.k = "inf" -> IF total_loss.v > 0 THEN Num(0) ELSE Num(I_in * 1000)
      [] OTHER -> total_loss

\* I_in * 10 ** (-total_loss / 10), in nA.
output_current(total_loss) ==
    CASE total_loss.k = "num" -> Num(MulMicro(I_in * 1000, DbToLinear(total_loss.v)))
      [] total_loss.k = "inf" -> IF total_loss.v > 0 THEN Num(0) ELSE Inf(1)
      [] OTHER -> total_loss

\* sim8: returns (I_out + noise, total_loss); the noise is on the current.
simulate_output_current(fiber_length, bend_radius, ambient_temp, attenuation_coeff, base_bending_loss, ideal_bend_radius, n_turns, np_radius, z) ==
    LET loss_per_bend == bending_loss(base_bending_loss, ideal_bend_radius,
                                      bend_radius, bend_angle, np_radius)
        total_loss == total_loss_of("sim8", fiber_length, ambient_temp,
                                    attenuation_coeff, n_turns, loss_per_bend)
        I_out == output_current(total_loss)
        noise == np_random_normal(noise_std("sim8"), I_out, z)
    IN  IF total_loss.k = "raise" THEN <<total_loss>>
        ELSE IF noise.k = "raise" THEN <<noise>>
        ELSE <<Plus(I_out, noise), total_loss>>

\* sim11: returns total_loss + noise; the noise is on the loss in dB.
simulate_total_loss(fiber_length, bend_radius, ambient_temp, attenuation_coeff, base_bending_loss, ideal_bend_radius, n_turns, np_radius, z) ==
    LET loss_per_bend == bending_loss(base_bending_loss, ideal_bend_radius,
                                      bend_radius, bend_angle, np_radius)
        total_loss == total_loss_of("sim11", fiber_length, ambient_temp,
                                    attenuation_coeff, n_turns, loss_per_bend)
        noise == np_random_normal(noise_std("sim11"), total_loss, z)
    IN  IF total_loss.k = "raise" THEN <<total_loss>>
        ELSE IF noise.k = "raise" THEN <<noise>>
        ELSE <<Plus(total_loss, noise)>>

-----------------------------------------------------------------------------
(* Exponential bending loss and the loss law of sim13                      *)

ExpTenth == <<1000000, 904837, 818731, 740818, 670320, 606531, 548812, 496585, 449329, 406570>>

\* exp(-x) in millionths for 0 <= x < 1000, x in thousandths.
ExpNegFrac(x) ==
    LET r == x % 100
        tail == 1000000 - 1000 * r + (r * r) \div 2 - (r * r * r) \div 6000
    IN  MulMicro(ExpTenth[(x \div 100) + 1], tail)

RECURSIVE ScaleByExpNeg(_, _)
\* a * exp(-x) for 0 <= a, 0 <= x, x in thousandths.
ScaleByExpNeg(a, x) ==
    IF a = 0 THEN 0
    ELSE IF x >= 1000 THEN ScaleByExpNeg(MulMicro(a, 367879), x - 1000)
    ELSE MulMicro(a, ExpNegFrac(x))

\* (4/3) * (R_m / a) * (n1**2 - n2**2)**(3/2), the exponent of the formula
\* with its sign dropped, in thousandths; for n1 >= n2.
bending_exponent13(core_radius, n1, n2, bend_radius_cm) ==
    LET d == n1 * n1 - n2 * n2
        p == ((d \div 1000) * ISqrt(d)) \div 1000
    IN  (((bend_radius_cm * p) \div core_radius) * 400) \div 297

\* 0.5 * (pi*a*n1/lambda)**2 * exp(-(4/3) * (R_m/a) * (n1**2 - n2**2)**(3/2)).
\* n1 and n2 are Python floats: a negative base to the power 1.5 is a
\* complex number, which np.exp takes; a zero base gives exp(0) = 1.
\* No comparison of n1 with n2 is made.  Evaluated for 0 <= bend_radius_cm.
bending_loss13(core_radius, n1, n2, wavelength, bend_radius_cm) ==
    LET d == n1 * n1 - n2 * n2
        x == bending_exponent13(core_radius, n1, n2, bend_radius_cm)
        u == ((((31416 * core_radius) \div wavelength) * n1) \div 10000)
        half_factor == (u * u) \div 2
    IN  IF d < 0 THEN Complex ELSE Num(ScaleByExpNeg(half_factor, x))

\* sim13: returns total_loss + noise with noise_std = 0.00.
simulate_total_loss13(fiber_length, bend_radius_cm, ambient_temp, attenuation_coeff, core_radius, n1, n2, wavelength, n_turns, z) ==
    LET loss_per_bend == bending_loss13(core_radius, n1, n2, wavelength, bend_radius_cm)
        total_loss == total_loss_of("sim13", fiber_length, ambient_temp,
                                    attenuation_coeff, n_turns, loss_per_bend)
        noise == np_random_normal(noise_std("sim13"), total_loss, z)
    IN  IF noise.k = "raise" THEN <<noise>>
        ELSE <<Plus(total_loss, noise)>>

-----------------------------------------------------------------------------
(* Bounds of the inputs                                                    *)

MaxLength == 10
MaxRadius == 5
MaxDev == 5
MaxTurns == 5
MaxSeed == 2

Seeds == 0..MaxSeed

-----------------------------------------------------------------------------
(* Initial state of a running script (module level, after the widgets are  *)
(* built and before any button is pressed)                                 *)

\* The value None of an unset buffer; a set buffer is a tuple of arrays.
None == <<>>

NoRun == [kind |-> "none"]

\* No call is running.
NoFrame == [step |-> -1]

InitGui ==
    /\ variant \in Variants
    /\ fiber_type_var = "G.652D"
    /\ length_sim_data = None
    /\ bending_sim_data = None
    /\ turns_sim_data = None
    /\ rng \in Seeds
    /\ lastRun = NoRun
    /\ runs = 0

-----------------------------------------------------------------------------
(* SpecLaw: direct calls of the loss functions                             *)

\* Fibre parameter sets handed to the functions: catalogue entries and, for
\* sim13, two index pairs no catalogue entry has (n1 = n2, n1 < n2).
LawSpecs(v) ==
    IF v = "sim13"
    THEN {fiber_types13["G.652D"], fiber_types13["G.655"],
          [fiber_types13["G.652D"] EXCEPT !.n1 = 14620],
          [fiber_types13["G.652D"] EXCEPT !.n1 = 14620, !.n2 = 14682]}
    ELSE {fiber_types["G.652D"], fiber_types["G.657B"]}

LawInputs ==
    {[fn |-> f, spec |-> s, fiber_length |-> l * Den, bend_radius |-> r * RDen,
      ambient_temp |-> room_temperature + d * MaxDev, n_turns |-> n] :
        f \in {"simulate"}, s \in LawSpecs("sim8") \cup LawSpecs("sim13"),
        l \in -1..MaxLength, r \in -1..MaxRadius, d \in {-1, 0, 1}, n \in 0..MaxTurns}
    \cup
    {[fn |-> "bending_loss", spec |-> s, fiber_length |-> 0, bend_radius |-> r * RDen,
      ambient_temp |-> room_temperature, n_turns |-> 1] :
        s \in LawSpecs("sim13"), r \in 0..MaxRadius}

InitLaw ==
    /\ InitGui
    /\ pc = "idle"
    /\ ret = <<>>
    /\ frame = NoFrame
    /\ args \in LawInputs
    /\ args.spec \in LawSpecs(variant)
    /\ variant = "sim13" => args.bend_radius >= 0

\* The generator advances by the draws the call made.
Advance(result) == IF result[1].k = "raise" THEN rng ELSE rng + 1

CallSimulate8 ==
    /\ pc = "idle" /\ variant = "sim8" /\ args.fn = "simulate"
    /\ LET result == simulate_output_current(args.fiber_length, args.bend_radius,
                        args.ambient_temp, args.spec.attenuation_coeff,
                        args.spec.base_bending_loss, args.spec.ideal_bend_radius,
                        args.n_turns, FALSE, Draw(rng))
       IN  /\ ret' = result
           /\ rng' = Advance(result)
    /\ pc' = "done"
    /\ UNCHANGED <<variant, fiber_type_var, length_sim_data, bending_sim_data,
                   turns_sim_data, lastRun, runs, args, frame>>

CallSimulate11 ==
    /\ pc = "idle" /\ variant = "sim11" /\ args.fn = "simulate"
    /\ LET result == simulate_total_loss(args.fiber_length, args.bend_radius,
                        args.ambient_temp, args.spec.attenuation_coeff,
                        args.spec.base_bending_loss, args.spec.ideal_bend_radius,
                        args.n_turns, FALSE, Draw(rng))
       IN  /\ ret' = result
           /\ rng' = Advance(result)
    /\ pc' = "done"
    /\ UNCHANGED <<variant, fiber_type_var, length_sim_data, bending_sim_data,
                   turns_sim_data, lastRun, runs, args, frame>>

CallSimulate13 ==
    /\ pc = "idle" /\ variant = "sim13" /\ args.fn = "simulate"
    /\ LET result == simulate_total_loss13(args.fiber_length, args.bend_radius,
                        args.ambient_temp, args.spec.attenuation_coeff,
                        args.spec.core_radius, args.spec.n1, args.spec.n2,
                        args.spec.wavelength, args.n_turns, Draw(rng))
       IN  /\ ret' = result
           /\ rng' = Advance(result)
    /\ pc' = "done"
    /\ UNCHANGED <<variant, fiber_type_var, length_sim_data, bending_sim_data,
                   turns_sim_data, lastRun, runs, args, frame>>

CallBendingLoss13 ==
    /\ pc = "idle" /\ variant = "sim13" /\ args.fn = "bending_loss"
    /\ ret' = <<bending_loss13(args.spec.core_radius, args.spec.n1, args.spec.n2,
                               args.spec.wavelength, args.bend_radius)>>
    /\ pc' = "done"
    /\ UNCHANGED <<guiVars, args, frame>>

NextLaw == CallSimulate8 \/ CallSimulate11 \/ CallSimulate13 \/ CallBendingLoss13

SpecLaw == InitLaw /\ [][NextLaw]_vars

-----------------------------------------------------------------------------
(* Properties of the loss functions (SpecLaw)                              *)

\* A call of a simulate function with a valid request: length >= 0,
\* bend radius > 0, turn count >= 0 and, in sim13, n1 > n2.
ValidLawCall ==
    /\ pc = "done" /\ args.fn = "simulate"
    /\ args.fiber_length >= 0 /\ args.bend_radius > 0 /\ args.n_turns >= 0
    /\ variant = "sim13" => args.spec.n1 > args.spec.n2

\* Loss of one 90-degree bend under the script's bending model.
LossPerBend90 ==
    IF variant = "sim13"
    THEN bending_loss13(args.spec.core_radius, args.spec.n1, args.spec.n2,
                        args.spec.wavelength, args.bend_radius).v
    ELSE bending_loss(args.spec.base_bending_loss, args.spec.ideal_bend_radius,
                      args.bend_radius, 90, FALSE).v

\* attenuationCoeff*L + n*bendingLoss(spec, R, 90) + tempCoeff*|T - 25|*L.
CompositeLoss ==
    (args.spec.attenuation_coeff * args.fiber_length) \div Den
    + args.n_turns * LossPerBend90
    + ((IF variant = "sim13" THEN 0 ELSE 200) * Abs(args.ambient_temp - 25)
         * args.fiber_length) \div Den

\* The total loss in dB the call hands back: the second value of sim8's
\* pair, the only value of sim11 and sim13.
ReportedLoss == IF variant = "sim8" THEN ret[2] ELSE ret[1]

\* C1 as stated: for every valid request the total loss returned by the
\* loss law equals attenuation + n * bending(90 degrees) + temperature term,
\* and nothing else is added to it.
C1_ReturnedLossIsComposite ==
    ValidLawCall => ReportedLoss = Num(CompositeLoss)

\* C1 as amended: the total loss computed by the law is that sum; sim8
\* returns it as total_loss and sim13 (noise_std = 0) returns it unchanged,
\* while sim11 returns it plus one noise draw of standard deviation
\* 0.02 * total loss.
C1_LossLaw ==
    ValidLawCall =>
        /\ variant = "sim8" => Len(ret) = 2 /\ ret[2] = Num(CompositeLoss)
        /\ variant = "sim13" => ret = <<Num(CompositeLoss)>>
        /\ variant = "sim11" =>
              ret = <<Num(CompositeLoss + Draw(rng - 1) * ((2 * CompositeLoss) \div 100))>>

\* C1 witness: a valid sim11 call off the reference temperature, with bends,
\* whose returned value differs from the composite sum.
C1_Witness ==
    /\ ValidLawCall /\ variant = "sim11"
    /\ args.ambient_temp # 25 /\ args.n_turns > 0 /\ args.fiber_length > 0
    /\ ret[1].k = "num" /\ ret[1].v # CompositeLoss

\* The scenario of C2: G.652D, 10 km, bend radius 5.0 cm, 5 turns, 25 C.
C2_Scenario ==
    /\ pc = "done" /\ args.fn = "simulate" /\ variant \in {"sim8", "sim11"}
    /\ args.spec = [attenuation_coeff |-> 200000, base_bending_loss |-> 100000,
                    ideal_bend_radius |-> 5 * RDen]
    /\ args.fiber_length = 10 * Den /\ args.bend_radius = 5 * RDen
    /\ args.n_turns = 5 /\ args.ambient_temp = 25

\* C2 as stated: in the scenario the total loss produced is exactly 2.5 dB,
\* with no noise in the value.
C2_ExactlyTwoPointFive ==
    C2_Scenario => ReportedLoss = Num(2500000)

\* C2 as amended: in the scenario sim8's total_loss is exactly 2.5 dB, and
\* the value sim11 returns is 2.5 dB plus one noise draw of standard
\* deviation 0.05 dB.
C2_ScenarioLoss ==
    C2_Scenario =>
        /\ variant = "sim8" => ret[2] = Num(2500000)
        /\ variant = "sim11" => ret = <<Num(2500000 + Draw(rng - 1) * 50000)>>

\* C2 witness: the scenario run by sim11 with a non-zero noise draw.
C2_Witness ==
    C2_Scenario /\ variant = "sim11" /\ ret[1] # Num(2500000)

\* C8 as stated: the exponential bending model rejects a spec with n1 <= n2
\* before computing anything and never returns a loss value for it.
C8_RejectsUnguidedSpec ==
    (pc = "done" /\ variant = "sim13" /\ args.spec.n1 <= args.spec.n2)
        => ret[1].k = "raise"

-----------------------------------------------------------------------------
(* The sweep handlers of the GUI scripts (sim8, sim11, sim13)              *)

\* Values the entry widgets are created with.
length_end_default == 10
temp_default == 30
bend_default == 3
fixed_length_default == 5
bend_from_default == 2
bend_to_default == 10
turn_from_default == 1
turn_to_default == 20

MaxRuns == 1

\* Fibre types picked in the combobox.  The multimode entries of sim13 are
\* left out: their loss at small radii exceeds the 32-bit fixed-point range.
Selectable(v) == IF v = "sim13" THEN {"G.652D", "G.655"} ELSE {"G.652D", "G.657B"}

\* np.linspace(start, stop, NumSamples, endpoint=False): the stop value is
\* not a sample and the step is (stop - start) / NumSamples.
linspace_NoEndpoint(start, stop) ==
    [i \in 1..NumSamples |->
        start * Den + ((i - 1) * (stop - start) * Den) \div NumSamples] \o <<>>

\* np.linspace(start, stop, NumSamples), in 1/Den units: sample i is
\* start + (i - 1) * (stop - start) / (NumSamples - 1), the last one stop.
linspace(start, stop) ==
    [i \in 1..NumSamples |-> start * Den + (i - 1) * (stop - start)] \o <<>>

\* np.arange(from, to): the last turn count is left out.
arange_Exclusive(from, to) ==
    [i \in 1..(IF to <= from THEN 0 ELSE to - from) |-> from + i - 1] \o <<>>

\* np.arange(from, to + 1): every integer from..to, none when to < from.
arange(from, to) ==
    [i \in 1..(IF to < from THEN 0 ELSE to - from + 1) |-> from + i - 1] \o <<>>

\* One call of the script's simulate function with the selected fibre's
\* parameters; c holds the call's arguments.
SimCall(v, fiber, c, np_radius, z) ==
    CASE v = "sim8" ->
           simulate_output_current(c.fiber_length, c.bend_radius, c.ambient_temp,
               fiber_types[fiber].attenuation_coeff, fiber_types[fiber].base_bending_loss,
               fiber_types[fiber].ideal_bend_radius, c.n_turns, np_radius, z)
      [] v = "sim11" ->
           simulate_total_loss(c.fiber_length, c.bend_radius, c.ambient_temp,
               fiber_types[fiber].attenuation_coeff, fiber_types[fiber].base_bending_loss,
               fiber_types[fiber].ideal_bend_radius, c.n_turns, np_radius, z)
      [] v = "sim13" ->
           simulate_total_loss13(c.fiber_length, c.bend_radius, c.ambient_temp,
               fiber_types13[fiber].attenuation_coeff, fiber_types13[fiber].core_radius,
               fiber_types13[fiber].n1, fiber_types13[fiber].n2,
               fiber_types13[fiber].wavelength, c.n_turns, z)

\* The loop "for x in xs: append(simulate(...))": the i-th call takes the
\* i-th draw after the generator's current position.
LoopResults(cs, np_radius) ==
    [i \in 1..Len(cs) |-> SimCall(variant, fiber_type_var, cs[i], np_radius,
                                  Draw(rng + i - 1))] \o <<>>

\* Index of the first call that raises, 0 when none does.
FirstRaise(rs) ==
    LET bad == {i \in 1..Len(rs) : rs[i][1].k = "raise"}
    IN  IF bad = {} THEN 0 ELSE CHOOSE i \in bad : \A j \in bad : i <= j

\* The tuple stored in a *_sim_data buffer: (xs, loss_values) in sim11 and
\* sim13, (xs, output_currents, total_losses) in sim8.
SimData(xs, rs) ==
    IF variant = "sim8"
    THEN <<xs, [i \in 1..Len(rs) |-> rs[i][1]], [i \in 1..Len(rs) |-> rs[i][2]]>>
    ELSE <<xs, [i \in 1..Len(rs) |-> rs[i][1]]>>

\* The part of a handler after its inputs parsed: run the loop over the
\* calls cs; if a call raises, the handler dies there and the buffer keeps
\* its old value; otherwise the buffer is assigned, and the status line
\* indexes [-1], which raises IndexError on an empty sweep.
SweepOutcome(req, xs, cs, np_radius, old) ==
    LET rs == LoopResults(cs, np_radius)
        f == FirstRaise(rs)
    IN  IF f > 0
        THEN [data |-> old, drawn |-> f - 1,
              run |-> [req EXCEPT !.outcome = rs[f][1].e, !.calls = SubSeq(cs, 1, f)]]
        ELSE [data |-> SimData(xs, rs), drawn |-> Len(cs),
              run |-> [req EXCEPT !.outcome = IF Len(cs) = 0 THEN "IndexError" ELSE "ok",
                                  !.calls = cs]]

\* A request as read from the entries: the sweep range, the fixed inputs,
\* and "bad", the entry (if any) whose text float()/int() cannot parse.
Request(kind, start, stop, fixed_length, bend_radius, ambient_temp, bad) ==
    [kind |-> kind, fiber |-> fiber_type_var, start |-> start, stop |-> stop,
     fixed_length |-> fixed_length, bend_radius |-> bend_radius,
     ambient_temp |-> ambient_temp, bad |-> bad, outcome |-> "", calls |-> <<>>]

\* Ranges typed into the entries: the range the widgets start with (from a
\* whole km), the same range reversed, and one starting at 0.
LengthRanges ==
    {<<1, length_end_default>>, <<length_end_default, 1>>, <<0, length_end_default>>}

BendRanges ==
    {<<bend_from_default, bend_to_default>>, <<bend_to_default, bend_from_default>>,
     <<0, bend_to_default>>}

TurnRanges ==
    {<<turn_from_default, turn_to_default>>, <<turn_to_default, turn_from_default>>,
     <<0, turn_from_default + 1>>}

\* Fixed bend radii typed besides the default: 0 and a negative one.  sim13's
\* exponential model is evaluated for radii >= 0 only (fixed-point range).
OtherRadii(v) == IF v = "sim13" THEN {0} ELSE {-bend_default, 0}

LengthRequests ==
    {Request("length", r[1], r[2], 0, bend_default, temp_default, "") : r \in LengthRanges}
    \cup {Request("length", 1, length_end_default, 0, r, temp_default, "") :
            r \in OtherRadii(variant)}
    \cup {Request("length", 1, length_end_default, 0, bend_default,
                    room_temperature, "")}
    \cup {Request("length", 0, 0, 0, 0, 0, "length")}

BendingRequests ==
    {Request("bending", r[1], r[2], fixed_length_default, 0, temp_default, "") :
        r \in BendRanges}
    \cup {Request("bending", 0, 0, 0, 0, 0, "bend")}

TurnsRequests ==
    {Request("turns", r[1], r[2], fixed_length_default, bend_default, temp_default, "") :
        r \in TurnRanges}
    \cup {Request("turns", turn_from_default, turn_to_default, fixed_length_default, r,
                  temp_default, "") : r \in OtherRadii(variant)}
    \cup {Request("turns", 0, 0, 0, 0, 0, "turns")}

\* A handler whose except branch also resets the three buffers.
ParseFailure_Clears(req) ==
    /\ req.bad # ""
    /\ lastRun' = [req EXCEPT !.outcome = "invalid input"]
    /\ length_sim_data' = None
    /\ bending_sim_data' = None
    /\ turns_sim_data' = None
    /\ UNCHANGED rng

\* A float()/int() of an entry raised ValueError: the handler reports it and
\* returns; nothing else happens.
ParseFailure(req) ==
    /\ req.bad # ""
    /\ lastRun' = [req EXCEPT !.outcome = "invalid input"]
    /\ UNCHANGED <<length_sim_data, bending_sim_data, turns_sim_data, rng>>

update_fiber ==
    /\ \E f \in Selectable(variant) : fiber_type_var' = f
    /\ UNCHANGED <<variant, length_sim_data, bending_sim_data, turns_sim_data,
                   rng, lastRun, runs, callVars>>

\* The body of run_length_simulation for the entry texts of one of reqs.
LengthHandler(reqs) ==
    /\ \E req \in reqs :
         \/ ParseFailure(req)
         \/ /\ req.bad = ""
            /\ LET fiber_lengths == linspace(req.start, req.stop)
                   cs == [i \in 1..NumSamples |->
                            [fiber_length |-> fiber_lengths[i],
                             bend_radius |-> req.bend_radius * RDen,
                             ambient_temp |-> req.ambient_temp,
                             n_turns |-> default_turns]]
               IN  \E out \in {SweepOutcome(req, fiber_lengths, cs, FALSE, length_sim_data)} :
                       /\ length_sim_data' = out.data
                       /\ rng' = rng + out.drawn
                       /\ lastRun' = out.run
            /\ UNCHANGED <<bending_sim_data, turns_sim_data>>
    /\ UNCHANGED <<variant, fiber_type_var>>

run_length_simulation ==
    /\ runs < MaxRuns
    /\ runs' = runs + 1
    /\ LengthHandler(LengthRequests)
    /\ UNCHANGED callVars

\* The body of run_bending_simulation for the entry texts of one of reqs.
BendingHandler(reqs) ==
    /\ \E req \in reqs :
         \/ ParseFailure(req)
         \/ /\ req.bad = ""
            /\ LET radii == linspace(req.start, req.stop)
                   bend_radii == [i \in 1..NumSamples |-> 10 * radii[i]]
                   cs == [i \in 1..NumSamples |->
                            [fiber_length |-> req.fixed_length * Den,
                             bend_radius |-> bend_radii[i],
                             ambient_temp |-> req.ambient_temp,
                             n_turns |-> default_turns]]
               IN  \E out \in {SweepOutcome(req, bend_radii, cs, TRUE, bending_sim_data)} :
                       /\ bending_sim_data' = out.data
                       /\ rng' = rng + out.drawn
                       /\ lastRun' = out.run
            /\ UNCHANGED <<length_sim_data, turns_sim_data>>
    /\ UNCHANGED <<variant, fiber_type_var>>

run_bending_simulation ==
    /\ runs < MaxRuns
    /\ runs' = runs + 1
    /\ BendingHandler(BendingRequests)
    /\ UNCHANGED callVars

\* The body of run_turns_simulation for the entry texts of one of reqs.
TurnsHandler(reqs) ==
    /\ \E req \in reqs :
         \/ ParseFailure(req)
         \/ /\ req.bad = ""
            /\ LET n_turns_array == arange(req.start, req.stop)
                   cs == [i \in 1..Len(n_turns_array) |->
                            [fiber_length |-> req.fixed_length * Den,
                             bend_radius |-> req.bend_radius * RDen,
                             ambient_temp |-> req.ambient_temp,
                             n_turns |-> n_turns_array[i]]]
               IN  \E out \in {SweepOutcome(req, n_turns_array, cs, FALSE, turns_sim_data)} :
                       /\ turns_sim_data' = out.data
                       /\ rng' = rng + out.drawn
                       /\ lastRun' = out.run
            /\ UNCHANGED <<length_sim_data, bending_sim_data>>
    /\ UNCHANGED <<variant, fiber_type_var>>

run_turns_simulation ==
    /\ runs < MaxRuns
    /\ runs' = runs + 1
    /\ TurnsHandler(TurnsRequests)
    /\ UNCHANGED callVars

Init ==
    /\ InitGui
    /\ args = [fn |-> "none"]
    /\ ret = <<>>
    /\ pc = "idle"
    /\ frame = NoFrame

Next ==
    \/ update_fiber
    \/ run_length_simulation
    \/ run_bending_simulation
    \/ run_turns_simulation

Spec == Init /\ [][Next]_vars

-----------------------------------------------------------------------------
(* Properties of the sweep handlers (Spec)                                 *)

\* The last handler run was the sweep of this kind and its entries parsed.
SweepRan(kind) == lastRun.kind = kind /\ lastRun.bad = ""

\* The buffer the sweep of this kind assigns.
BufferOf(kind) ==
    CASE kind = "length" -> length_sim_data
      [] kind = "bending" -> bending_sim_data
      [] kind = "turns" -> turns_sim_data

\* The sequence of total-loss values in a stored tuple: total_losses in
\* sim8, loss_values in sim11 and sim13.
StoredLoss(data) == IF variant = "sim8" THEN data[3] ELSE data[2]

\* Position of the generator before the i-th of the n calls of the last,
\* completed, sweep.
DrawOfSample(i, n) == Draw(rng - n + i - 1)

\* Loss of one 90-degree bend at the fixed radius of the last request, for
\* the fibre selected when it ran.
FixedLossPerBend ==
    IF variant = "sim13"
    THEN bending_loss13(fiber_types13[lastRun.fiber].core_radius,
                        fiber_types13[lastRun.fiber].n1, fiber_types13[lastRun.fiber].n2,
                        fiber_types13[lastRun.fiber].wavelength,
                        lastRun.bend_radius * RDen).v
    ELSE bending_loss(fiber_types[lastRun.fiber].base_bending_loss,
                      fiber_types[lastRun.fiber].ideal_bend_radius,
                      lastRun.bend_radius * RDen, 90, FALSE).v

\* attenuation + n * (loss per bend) + temperature term of the last turn
\* sweep's fixed inputs, for turn count n.
TurnTotal(n) ==
    LET att == IF variant = "sim13" THEN fiber_types13[lastRun.fiber].attenuation_coeff
               ELSE fiber_types[lastRun.fiber].attenuation_coeff
    IN  att * lastRun.fixed_length + n * FixedLossPerBend
        + (IF variant = "sim13" THEN 0 ELSE 200) * Abs(lastRun.ambient_temp - 25)
            * lastRun.fixed_length

C5_ReversedRangeChangesNothing ==
    [][(/\ runs' = runs + 1 /\ lastRun'.bad = ""
        /\ lastRun'.start > lastRun'.stop)
          => /\ lastRun'.calls = <<>>
             /\ UNCHANGED <<length_sim_data, bending_sim_data, turns_sim_data>>]_vars

\* C6 as stated: no sweep evaluates the loss law at a swept length <= 0, a
\* swept bend radius <= 0 or a swept turn count below 1.
C6_NoDegenerateSample ==
    (lastRun.kind # "none" /\ lastRun.bad = "") =>
        \A i \in 1..Len(lastRun.calls) :
            /\ lastRun.kind = "length" => lastRun.calls[i].fiber_length > 0
            /\ lastRun.kind = "bending" => lastRun.calls[i].bend_radius > 0
            /\ lastRun.kind = "turns" => lastRun.calls[i].n_turns >= 1

\* C7 as stated: under the empirical formula (sim8, sim11) a request
\* carrying a bend radius <= 0 (the fixed radius of a length or turn sweep,
\* or an end of the swept radius range) ends in an error; it never completes
\* with loss values in the result.
C7_NonPositiveRadiusRejected ==
    (/\ variant \in {"sim8", "sim11"}
     /\ lastRun.kind # "none" /\ lastRun.bad = ""
     /\ IF lastRun.kind = "bending"
        THEN lastRun.start <= 0 \/ lastRun.stop <= 0
        ELSE lastRun.bend_radius <= 0)
        => lastRun.outcome # "ok"

-----------------------------------------------------------------------------
(* Numerical aperture (sim1, sim2)                                         *)

\* Angles are in micro-radians or micro-degrees, ratios in millionths.  The
\* series below are those of arctan and sin cut after the fifth power; they
\* are evaluated for |D / (2b)| <= 0.1 only.

\* np.arctan(x), x in millionths.
np_arctan(x) ==
    LET a == Abs(x)
        a3 == MulMicro(MulMicro(a, a), a)
        a5 == MulMicro(MulMicro(a3, a), a)
    IN  Sign(x) * (a - a3 \div 3 + a5 \div 5)

\* np.sin(theta), theta in micro-radians.
np_sin(theta) ==
    LET a == Abs(theta)
        a3 == MulMicro(MulMicro(a, a), a)
        a5 == MulMicro(MulMicro(a3, a), a)
    IN  Sign(theta) * (a - a3 \div 6 + a5 \div 120)

\* np.degrees(theta): theta * 180 / pi.
np_degrees(theta) == Sign(theta) * MulMicro(Abs(theta), 57295780)

\* D is in twentieths of a mm and b in cm, so D / (2 * b) = D / (400 * b).
\* Both are Python floats: b = 0 raises ZeroDivisionError at the division.
\* Nothing else is looked at: the sign of D / (2 * b) goes through arctan,
\* sin and degrees.
calculate_numerical_aperture(D, b) ==
    IF b = 0 THEN <<Raise("ZeroDivisionError")>>
    ELSE LET x == Sign(D) * Sign(b) * ((Abs(D) * 1000000) \div (400 * Abs(b)))
             theta == np_arctan(x)
             NA == np_sin(theta)
             theta_deg == np_degrees(theta)
         IN  <<Num(theta_deg), Num(NA)>>

MaxSpot == 23
MaxScreen == 10

NAInputs ==
    {[fn |-> "calculate_numerical_aperture", D |-> d, b |-> sb] :
        d \in -MaxSpot..MaxSpot, sb \in -MaxScreen..MaxScreen}

InitNA ==
    /\ variant \in {"sim1", "sim2"}
    /\ fiber_type_var = ""
    /\ length_sim_data = None
    /\ bending_sim_data = None
    /\ turns_sim_data = None
    /\ rng \in Seeds
    /\ lastRun = NoRun
    /\ runs = 0
    /\ args \in NAInputs
    /\ ret = <<>>
    /\ pc = "idle"
    /\ frame = NoFrame

CallNumericalAperture ==
    /\ pc = "idle" /\ args.fn = "calculate_numerical_aperture"
    /\ ret' = calculate_numerical_aperture(args.D, args.b)
    /\ pc' = "done"
    /\ UNCHANGED <<guiVars, args, frame>>

NextNA == CallNumericalAperture

SpecNA == InitNA /\ [][NextNA]_vars

\* C9 as stated: calculate_numerical_aperture rejects a non-positive spot
\* diameter D or a non-positive screen distance b with an error and returns
\* an (angle, NA) pair only when both are strictly positive.
C9_RejectsNonPositive ==
    (pc = "done" /\ (args.D <= 0 \/ args.b <= 0)) => ret[1].k = "raise"

-----------------------------------------------------------------------------
(* hybrid_simulation (sim4)                                                *)

\* Lengths are in micro-km here, losses in micro-dB.

MaxSteps == 4
MaxEvents == 5

\* np.random.choice(np.arange(n), k, replace=True): any k indices, repeats
\* allowed, and no complaint when k exceeds n.
np_random_choice_Replace(n, k) ==
    IF k < 0 \/ (n <= 0 /\ k > 0)
    THEN {[k |-> "raise", v |-> <<>>, e |-> "ValueError"]}
    ELSE {[k |-> "array", v |-> c, e |-> ""] : c \in [1..k -> 0..(n - 1)]}

\* np.random.choice(np.arange(n), k, replace=False): the results the call
\* can have.  It raises ValueError when k is negative or larger than the
\* population; otherwise it returns k pairwise distinct indices in a random
\* order.
np_random_choice(n, k) ==
    IF k < 0 \/ k > n \/ (n <= 0 /\ k > 0)
    THEN {[k |-> "raise", v |-> <<>>, e |-> "ValueError"]}
    ELSE {[k |-> "array", v |-> c, e |-> ""] :
            c \in {f \in [1..k -> 0..(n - 1)] :
                     \A i, j \in 1..k : i # j => f[i] # f[j]}}

\* The array left in the order np.random.choice returned it.
np_sort_Unsorted(a) == a

\* np.sort of an index array.
np_sort(a) == SortSeq(a, LAMBDA x, y : x < y)

\* The test that takes the step after an event index for the event step.
IsEventStep_After(step, bend_event_indices) ==
    \E i \in 1..Len(bend_event_indices) : bend_event_indices[i] + 1 = step

\* "step in bend_event_indices".
IsEventStep(step, bend_event_indices) ==
    \E i \in 1..Len(bend_event_indices) : bend_event_indices[i] = step

\* np.random.normal(loc=0.2, scale=0.05), z the standard draw.
event_loss(z) == 200000 + 50000 * z

\* The attenuation of one segment alone, the temperature term left out.
segment_loss_NoTemp(attenuation_coeff, temp_coeff, ambient_temp, room_temp, dz) ==
    MulMicro(attenuation_coeff, dz)

\* Lines 35-38: loss_attenuation + loss_temp of one segment of length dz.
segment_loss(attenuation_coeff, temp_coeff, ambient_temp, room_temp, dz) ==
    LET loss_attenuation == MulMicro(attenuation_coeff, dz)
        loss_temp == MulMicro(temp_coeff * Abs(ambient_temp - room_temp), dz)
    IN  loss_attenuation + loss_temp

\* The parameter sets the function is called with: the script's own values
\* (5 km, 30 C against 25 C, 0.00385 dB/km, 0.0002 dB/km/C, 2 % noise) with
\* fewer steps and events, and around them a 1 km fibre, the reference
\* temperature and no noise.
HybridInputs ==
    {[fn |-> "hybrid_simulation", I_in |-> I_in, fiber_length_km |-> l,
      num_steps |-> n, num_bend_events |-> k, ambient_temp |-> t,
      room_temp |-> room_temperature, attenuation_coeff |-> 3850,
      temp_coefficient |-> 200, noise_std |-> sd] :
        l \in {1, fixed_length_default}, n \in 0..MaxSteps, k \in 0..MaxEvents,
        t \in {room_temperature, temp_default}, sd \in {0, 2}}

InitHybrid ==
    /\ variant = "sim4"
    /\ fiber_type_var = ""
    /\ length_sim_data = None
    /\ bending_sim_data = None
    /\ turns_sim_data = None
    /\ rng \in Seeds
    /\ lastRun = NoRun
    /\ runs = 0
    /\ args \in HybridInputs
    /\ ret = <<>>
    /\ pc = "idle"
    /\ frame = NoFrame

\* Lines 25-30: dz, the accumulators and the event indices.  A zero
\* num_steps raises at the division; a refused choice raises at line 30.
\* Either way the function is left before the loop.
hybrid_simulation_enter ==
    /\ pc = "idle" /\ args.fn = "hybrid_simulation"
    /\ IF args.num_steps = 0
       THEN /\ ret' = <<Raise("ZeroDivisionError")>>
            /\ pc' = "done"
            /\ UNCHANGED <<rng, frame>>
       ELSE \E chosen \in np_random_choice(args.num_steps, args.num_bend_events) :
              IF chosen.k = "raise"
              THEN /\ ret' = <<Raise(chosen.e)>>
                   /\ pc' = "done"
                   /\ UNCHANGED <<rng, frame>>
              ELSE /\ frame' = [dz |-> (args.fiber_length_km * 1000000) \div args.num_steps,
                                total_loss_dB |-> 0,
                                loss_profile |-> <<>>,
                                bend_event_indices |-> np_sort(chosen.v),
                                step |-> 0]
                   /\ rng' = rng + args.num_bend_events
                   /\ pc' = "loop"
                   /\ UNCHANGED ret
    /\ UNCHANGED <<variant, fiber_type_var, length_sim_data, bending_sim_data,
                   turns_sim_data, lastRun, runs, args>>

\* Lines 32-49: one iteration of "for step in range(num_steps)".
hybrid_simulation_step ==
    /\ pc = "loop" /\ frame.step < args.num_steps
    /\ LET deterministic == segment_loss(args.attenuation_coeff, args.temp_coefficient,
                                          args.ambient_temp, args.room_temp, frame.dz)
           event == IsEventStep(frame.step, frame.bend_event_indices)
           bending_loss_dB == IF event THEN event_loss(Draw(rng)) ELSE 0
           total == frame.total_loss_dB + deterministic + bending_loss_dB
       IN  /\ frame' = [frame EXCEPT !.total_loss_dB = total,
                                     !.loss_profile = Append(@, total),
                                     !.step = @ + 1]
           /\ rng' = IF event THEN rng + 1 ELSE rng
    /\ UNCHANGED <<variant, fiber_type_var, length_sim_data, bending_sim_data,
                   turns_sim_data, lastRun, runs, args, ret, pc>>

\* Lines 51-58: the output current, its noise, and the return.
hybrid_simulation_return ==
    /\ pc = "loop" /\ frame.step >= args.num_steps
    /\ LET I_out == output_current(Num(frame.total_loss_dB))
           noise == np_random_normal(args.noise_std, I_out, Draw(rng))
       IN  IF noise.k = "raise"
           THEN ret' = <<noise>> /\ rng' = rng
           ELSE /\ ret' = <<Plus(I_out, noise), frame.loss_profile,
                            frame.bend_event_indices>>
                /\ rng' = rng + 1
    /\ pc' = "done"
    /\ UNCHANGED <<variant, fiber_type_var, length_sim_data, bending_sim_data,
                   turns_sim_data, lastRun, runs, args, frame>>

NextHybrid ==
    \/ hybrid_simulation_enter
    \/ hybrid_simulation_step
    \/ hybrid_simulation_return

SpecHybrid == InitHybrid /\ [][NextHybrid]_vars

\* C10: a call of hybrid_simulation with num_bend_events > num_steps ends in
\* an exception in its first step, before the loop: the generator is not
\* advanced (no event loss is drawn), no loss is accumulated and no profile
\* entry exists, and what comes back is the exception alone, not a
\* (signal, profile, events) triple.
C10_TooManyEventsFailsBeforeLoop ==
    [][(pc = "idle" /\ args.num_bend_events > args.num_steps)
         => /\ pc' = "done"
            /\ Len(ret') = 1 /\ ret'[1].k = "raise"
            /\ rng' = rng
            /\ frame' = NoFrame]_vars

\* C10 witness: a call with more events than steps, on a positive number of
\* steps, has ended with the ValueError of the refused choice.
C10_Witness ==
    /\ pc = "done" /\ args.fn = "hybrid_simulation"
    /\ args.num_steps > 0 /\ args.num_bend_events > args.num_steps
    /\ ret = <<Raise("ValueError")>>

\* The call has returned its (signal, profile, events) triple.
HybridReturned == pc = "done" /\ args.fn = "hybrid_simulation" /\ Len(ret) = 3

\* C11: a call with 0 <= num_bend_events <= num_steps and at least one
\* step returns its triple, and the event indices of every returned triple
\* are num_bend_events in number, all in 0 .. num_steps - 1, pairwise
\* distinct and in ascending order.
C11_EventIndices ==
    (/\ pc = "done" /\ args.fn = "hybrid_simulation"
     /\ 0 <= args.num_bend_events /\ args.num_bend_events <= args.num_steps) =>
        /\ args.num_steps > 0 => Len(ret) = 3
        /\ Len(ret) = 3 =>
             /\ Len(ret[3]) = args.num_bend_events
             /\ \A i \in 1..Len(ret[3]) : ret[3][i] \in 0..(args.num_steps - 1)
             /\ \A i \in 1..(Len(ret[3]) - 1) : ret[3][i] < ret[3][i + 1]

\* C11 witness: a returned triple whose two events are not at neighbouring
\* steps.
C11_Witness ==
    /\ HybridReturned /\ args.num_bend_events = 2 /\ args.num_steps = 4
    /\ ret[3] = <<1, 3>>

\* C12: with num_bend_events = 0 every returned profile has num_steps
\* entries and its k-th entry is k times the loss of one segment,
\* attenuation_coeff * dz + temp_coefficient * |ambient_temp - room_temp| * dz
\* with dz = fiber_length_km / num_steps: equal increments, no event jump.
C12_DeterministicProfile ==
    (HybridReturned /\ args.num_bend_events = 0) =>
        LET dz == (args.fiber_length_km * 1000000) \div args.num_steps
            per_step == MulMicro(args.attenuation_coeff, dz)
                        + MulMicro(args.temp_coefficient
                                     * Abs(args.ambient_temp - args.room_temp), dz)
        IN  /\ Len(ret[2]) = args.num_steps
            /\ \A k \in 1..args.num_steps : ret[2][k] = k * per_step

\* C12 witness: an event-free call off the reference temperature returned a
\* profile of four entries.
C12_Witness ==
    /\ HybridReturned /\ args.num_bend_events = 0 /\ args.num_steps = 4
    /\ args.ambient_temp # args.room_temp /\ ret[2][4] > 0

\* C13 as stated: with non-negative coefficients the cumulative-loss
\* profile never decreases from one step to the next, event steps included.
C13_ProfileNonDecreasing ==
    (pc \in {"loop", "done"} /\ frame # NoFrame) =>
        \A i \in 1..(Len(frame.loss_profile) - 1) :
            frame.loss_profile[i] <= frame.loss_profile[i + 1]

-----------------------------------------------------------------------------
(* Properties of the noise (SpecLaw, Spec)                                 *)

\* C14 as stated, for sim13 (noise_std = 0.00) and a guided fibre: the
\* value simulate_total_loss returns is the noiseless total loss, whatever
\* the inputs.
C14_ZeroNoiseReturnsInput ==
    (/\ pc = "done" /\ variant = "sim13" /\ args.fn = "simulate"
     /\ args.spec.n1 > args.spec.n2) =>
        ret = <<total_loss_of("sim13", args.fiber_length, args.ambient_temp,
                              args.spec.attenuation_coeff, args.n_turns,
                              bending_loss13(args.spec.core_radius, args.spec.n1,
                                             args.spec.n2, args.spec.wavelength,
                                             args.bend_radius))>>

\* The last handler was a sweep that ran to completion.
SweepCompleted == lastRun.kind # "none" /\ lastRun.bad = "" /\ lastRun.outcome = "ok"

\* The noiseless total loss of call c of the last sweep.
NoiselessTotal(c) ==
    IF variant = "sim13"
    THEN total_loss_of(variant, c.fiber_length, c.ambient_temp,
             fiber_types13[lastRun.fiber].attenuation_coeff, c.n_turns,
             bending_loss13(fiber_types13[lastRun.fiber].core_radius,
                            fiber_types13[lastRun.fiber].n1, fiber_types13[lastRun.fiber].n2,
                            fiber_types13[lastRun.fiber].wavelength, c.bend_radius))
    ELSE total_loss_of(variant, c.fiber_length, c.ambient_temp,
             fiber_types[lastRun.fiber].attenuation_coeff, c.n_turns,
             bending_loss(fiber_types[lastRun.fiber].base_bending_loss,
                          fiber_types[lastRun.fiber].ideal_bend_radius,
                          c.bend_radius, 90, lastRun.kind = "bending"))

\* C15 as stated: the total loss in dB a completed sweep reports for a
\* sample is the deterministic composite value, with no noise added to it.
C15_ReportedLossIsNoiseless ==
    SweepCompleted =>
        \A i \in 1..Len(lastRun.calls) :
            StoredLoss(BufferOf(lastRun.kind))[i] = NoiselessTotal(lastRun.calls[i])

\* C15 as amended: every sample of a completed sweep takes one zero-mean
\* draw.  In sim8 the draw has standard deviation 0.02 * I_out and is added
\* to the output current only, the total loss stored beside it being the
\* noiseless value.  In sim11 the draw has standard deviation
\* 0.02 * total loss and is added to the total loss in dB, which is the
\* value stored.  In sim13 (noise_std = 0) the stored loss is the noiseless
\* value.  (Stated for the samples whose noiseless loss is finite.)
C15_WhereTheNoiseGoes ==
    SweepCompleted =>
        LET data == BufferOf(lastRun.kind)
            n == Len(lastRun.calls)
        IN  \A i \in 1..n :
              LET total == NoiselessTotal(lastRun.calls[i])
                  z == DrawOfSample(i, n)
              IN  total.k = "num" =>
                    CASE variant = "sim8" ->
                           LET I_out == output_current(total).v
                           IN  /\ data[3][i] = total
                               /\ data[2][i] = Num(I_out + z * ((2 * I_out) \div 100))
                      [] variant = "sim11" ->
                           data[2][i] = Num(total.v + z * ((2 * total.v) \div 100))
                      [] OTHER -> data[2][i] = total

\* C15 witness: a completed sim11 sweep one of whose stored loss values
\* differs from the noiseless total loss of its sample.
C15_Witness ==
    /\ SweepCompleted /\ variant = "sim11" /\ lastRun.kind = "length"
    /\ \E i \in 1..Len(lastRun.calls) :
          /\ NoiselessTotal(lastRun.calls[i]).k = "num"
          /\ length_sim_data[2][i] # NoiselessTotal(lastRun.calls[i])

-----------------------------------------------------------------------------
(* sim3: the Monte Carlo script                                            *)
(* Radii are in hundredths of a centimetre, fiber_length in millionths of  *)
(* a kilometre, losses in micro-dB, currents in nA.                        *)

MaxRays == 3

\* The drawn radius floored at 0.1 cm.
floored_radius_LowFloor(loc, scale, z) ==
    IF loc + scale * z > 10 THEN loc + scale * z ELSE 10

\* Lines 19-21: bend_radius = max(np.random.normal(loc, scale), 1.0).
floored_radius(loc, scale, z) ==
    IF loc + scale * z > 100 THEN loc + scale * z ELSE 100

\* Lines 17-23: one bend at a radius drawn around loc with deviation scale,
\* floored at 1.0 cm; z is the standard-normal draw behind the radius.
random_bending_loss(base_bending_loss, ideal_bend_radius, loc, scale, z) ==
    (base_bending_loss * ideal_bend_radius) \div floored_radius(loc, scale, z)

\* The sum with one draw used for every bend of the ray.
total_bending_loss_OneDraw(a, r, bends) ==
    bends * random_bending_loss(a.base_bending_loss, a.ideal_bend_radius,
                                a.radius_loc, a.radius_scale, Draw(r))

RECURSIVE total_bending_loss(_, _, _)
\* Line 32: the sum of number_of_bends calls of random_bending_loss, the
\* first of which takes the draw at position r of the generator.
total_bending_loss(a, r, bends) ==
    IF bends = 0 THEN 0
    ELSE random_bending_loss(a.base_bending_loss, a.ideal_bend_radius,
                             a.radius_loc, a.radius_scale, Draw(r))
         + total_bending_loss(a, r + 1, bends - 1)

\* simulate_ray without the temperature term.
simulate_ray_NoTemp(a, r) ==
    LET loss_attenuation == MulMicro(a.attenuation_coeff, a.fiber_length)
        total_loss == loss_attenuation + total_bending_loss(a, r, a.number_of_bends)
    IN  [I_out |-> output_current(Num(total_loss)).v, total_loss |-> total_loss]

\* Lines 26-37: simulate_ray, called with the generator at position r.
simulate_ray(a, r) ==
    LET loss_attenuation == MulMicro(a.attenuation_coeff, a.fiber_length)
        loss_temp == MulMicro(a.temp_coefficient * Abs(a.ambient_temp - a.room_temp), a.fiber_length)
        total_loss == loss_attenuation + total_bending_loss(a, r, a.number_of_bends) + loss_temp
    IN  [I_out |-> output_current(Num(total_loss)).v, total_loss |-> total_loss]

\* The radii the bends of a ray divide by, the ray being simulated with
\* the generator at position r.
bend_radii_of(a, r) ==
    [i \in 1..a.number_of_bends |->
        floored_radius(a.radius_loc, a.radius_scale, Draw(r + i - 1))] \o <<>>

RECURSIVE SumSeq(_)
SumSeq(q) == IF q = <<>> THEN 0 ELSE Head(q) + SumSeq(Tail(q))

\* np.mean: nan for an empty list.
np_mean(q) == IF q = <<>> THEN NaN ELSE Num(SumSeq(q) \div Len(q))

\* np.std (population deviation): nan for an empty list.  Deviations are
\* taken in units of 100 nA.
np_std(q) ==
    IF q = <<>> THEN NaN
    ELSE LET m == SumSeq(q) \div Len(q)
             sq == [i \in 1..Len(q) |-> ((q[i] - m) \div 100) * ((q[i] - m) \div 100)]
         IN  Num(100 * ISqrt(SumSeq(sq) \div Len(q)))

\* Lines 5-14 and 19: the script's parameters.  The script fixes
\* num_rays = 100000, loc = 5.0 and scale = 0.5.
MCInputs ==
    {[fn |-> "monte_carlo", num_rays |-> n, fiber_length |-> 5000000,
      attenuation_coeff |-> 3850, room_temp |-> room_temperature,
      ambient_temp |-> temp_default, temp_coefficient |-> 200,
      number_of_bends |-> default_turns, ideal_bend_radius |-> 1000,
      base_bending_loss |-> 200000, radius_loc |-> loc, radius_scale |-> sc] :
        n \in 0..MaxRays, loc \in {0, 500}, sc \in {0, 50}}

InitMC ==
    /\ variant = "sim3"
    /\ fiber_type_var = ""
    /\ length_sim_data = None
    /\ bending_sim_data = None
    /\ turns_sim_data = None
    /\ rng \in Seeds
    /\ lastRun = NoRun
    /\ runs = 0
    /\ args \in MCInputs
    /\ ret = <<>>
    /\ pc = "idle"
    /\ frame = NoFrame

\* Lines 40-41: the two empty result lists.
monte_carlo_enter ==
    /\ pc = "idle" /\ args.fn = "monte_carlo"
    /\ frame' = [ray_outputs |-> <<>>, ray_losses |-> <<>>, bend_radii |-> <<>>, step |-> 0]
    /\ pc' = "loop"
    /\ UNCHANGED <<guiVars, args, ret>>

\* Lines 42-45: one iteration of "for _ in range(num_rays)".
monte_carlo_ray ==
    /\ pc = "loop" /\ args.fn = "monte_carlo" /\ frame.step < args.num_rays
    /\ LET ray == simulate_ray(args, rng)
       IN  frame' = [frame EXCEPT !.ray_outputs = Append(@, ray.I_out),
                                  !.ray_losses = Append(@, ray.total_loss),
                                  !.bend_radii = bend_radii_of(args, rng),
                                  !.step = @ + 1]
    /\ rng' = rng + args.number_of_bends
    /\ UNCHANGED <<variant, fiber_type_var, length_sim_data, bending_sim_data,
                   turns_sim_data, lastRun, runs, args, ret, pc>>

\* Lines 47-48: avg_I_out and std_I_out.
monte_carlo_report ==
    /\ pc = "loop" /\ args.fn = "monte_carlo" /\ frame.step >= args.num_rays
    /\ ret' = <<np_mean(frame.ray_outputs), np_std(frame.ray_outputs)>>
    /\ pc' = "done"
    /\ UNCHANGED <<guiVars, args, frame>>

NextMC ==
    \/ monte_carlo_enter
    \/ monte_carlo_ray
    \/ monte_carlo_report

SpecMC == InitMC /\ [][NextMC]_vars

\* C16 as stated: the randomized operations draw from a source the caller
\* supplies, so invocations with the same inputs return identical results.
\* simulate_ray takes no argument at all: the rays of one Monte Carlo run
\* are invocations with the same inputs, so they all have the same loss.
C16_SameInputsSameResult ==
    (pc = "done" /\ args.fn = "monte_carlo") =>
        \A i, j \in 1..Len(frame.ray_losses) :
            frame.ray_losses[i] = frame.ray_losses[j]

-----------------------------------------------------------------------------
(* Independence of invocations (Spec)                                      *)

\* C17 as stated, for sim11: the last-result buffers are the only mutable
\* state a sweep shares with the calls that follow it, so a handler that
\* has run leaves the state of the process-wide random generator, from
\* which the next call takes its noise draws, as it found it.
C17_NoStateSharedBetweenCalls ==
    [][(variant = "sim11" /\ runs' = runs + 1) => rng' = rng]_vars

-----------------------------------------------------------------------------
(* The loss of one bend as a function of the radius (sim11, sim12, sim13)  *)
(* A loss is held with its rank: a number that orders the float results    *)
(* as the floats themselves are ordered.  For the empirical formula the    *)
(* rank is the value in micro-dB; for an exponential formula it follows    *)
(* the exponent, down to the underflow of np.exp.                          *)

MaxFar == 7

FarStep == 25

\* np.exp(-x) is 0.0 for x above 745.133 (x in thousandths).
ExpUnderflow == 745133

\* Up to x = 700 the product of np.exp(-x) with a catalog factor is a
\* normal float.
ExpNormal == 700000

\* The rank that stops falling at ExpNormal: no underflow.
np_exp_rank_NoUnderflow(x) == 2 + (ExpNormal - x)

\* The rank of K * np.exp(-x) for a fixed K > 0: 0 for the float 0.0, one
\* rank for the subnormal results (which are not told apart), and above
\* them the normal results, higher for a smaller x.
np_exp_rank(x) ==
    IF x > ExpUnderflow THEN 0
    ELSE IF x > ExpNormal THEN 1
    ELSE 2 + (ExpNormal - x)

\* sim12: attenuation, base and ideal radius as in sim11; A in micro-dB, B
\* and MFD in tenths.
fiber_types12 ==
    [n \in {"G.652D", "G.657A", "G.655"} |->
       CASE n = "G.652D" -> [attenuation_coeff |-> 200000, base_bending_loss |-> 100000,
                             ideal_bend_radius |-> 5 * RDen,
                             MFD |-> 92, A |-> 200000, B |-> 15]
         [] n = "G.657A" -> [attenuation_coeff |-> 180000, base_bending_loss |-> 50000,
                             ideal_bend_radius |-> 3 * RDen,
                             MFD |-> 88, A |-> 100000, B |-> 18]
         [] n = "G.655"  -> [attenuation_coeff |-> 220000, base_bending_loss |-> 150000,
                             ideal_bend_radius |-> 5 * RDen,
                             MFD |-> 100, A |-> 250000, B |-> 13]]

\* B * (R / MFD), in thousandths.
marcuse_exponent(B, R, MFD) == ((((B * R) * 100) \div MFD) * 10) \div RDen

\* sim12: A * np.exp(-B * (R / MFD)).
marcuse_bending_loss(A, B, R, MFD) ==
    [loss |-> Num(ScaleByExpNeg(A, marcuse_exponent(B, R, MFD))),
     rank |-> np_exp_rank(marcuse_exponent(B, R, MFD))]

\* sim12: base_loss * (ideal_radius / bend_radius) * (bend_angle_deg / 90.0),
\* the radius being a np.linspace sample.
empirical_bending_loss(base_loss, ideal_radius, bend_radius, bend_angle_deg) ==
    LET loss == bending_loss(base_loss, ideal_radius, bend_radius, bend_angle_deg, TRUE)
    IN  [loss |-> loss, rank |-> loss.v]

\* sim12: the loss of every radius of bend_radii under the model selected.
simulate_bending_loss(fiber_type, bend_radii, model) ==
    LET params == fiber_types12[fiber_type]
    IN  [i \in 1..Len(bend_radii) |->
           IF model = "Marcuse"
           THEN marcuse_bending_loss(params.A, params.B, bend_radii[i], params.MFD)
           ELSE empirical_bending_loss(params.base_bending_loss, params.ideal_bend_radius,
                                       bend_radii[i], bend_angle)] \o <<>>

\* Radii in cm: the small ones of the sweeps and some far beyond them.
BendRadii == (1..MaxRadius) \cup {FarStep * k : k \in 1..MaxFar}

RadiusPairs == {<<R1 * RDen, R2 * RDen>> : R1 \in BendRadii, R2 \in BendRadii} \cap {q \in Seq(Int) : q[1] < q[2]}

BendInputs ==
    {[fn |-> "bending_loss", script |-> "sim11", fiber_type |-> f, model |-> "Empirical",
      bend_angle_deg |-> a, bend_radii |-> q] :
        f \in DOMAIN fiber_types, a \in {0, 45, 90}, q \in RadiusPairs}
    \cup {[fn |-> "simulate_bending_loss", script |-> "sim12", fiber_type |-> f, model |-> m,
           bend_angle_deg |-> bend_angle, bend_radii |-> q] :
        f \in DOMAIN fiber_types12, m \in {"Marcuse", "Empirical", "marcuse"},
        q \in RadiusPairs}
    \cup {[fn |-> "bending_loss", script |-> "sim13", fiber_type |-> f, model |-> "Exponential",
           bend_angle_deg |-> bend_angle, bend_radii |-> q] :
        f \in Selectable("sim13"), q \in RadiusPairs}

InitBend ==
    /\ variant \in {"sim11", "sim12", "sim13"}
    /\ fiber_type_var = ""
    /\ length_sim_data = None
    /\ bending_sim_data = None
    /\ turns_sim_data = None
    /\ rng = 0
    /\ lastRun = NoRun
    /\ runs = 0
    /\ args \in {a \in BendInputs : a.script = variant}
    /\ ret = <<>>
    /\ pc = "idle"
    /\ frame = NoFrame

\* sim11: bending_loss at each of the two radii.
CallBendingLoss11 ==
    /\ pc = "idle" /\ variant = "sim11" /\ args.fn = "bending_loss"
    /\ ret' = [i \in 1..2 |->
                 LET loss == bending_loss(fiber_types[args.fiber_type].base_bending_loss,
                                          fiber_types[args.fiber_type].ideal_bend_radius,
                                          args.bend_radii[i], args.bend_angle_deg, FALSE)
                 IN  [loss |-> loss, rank |-> loss.v]] \o <<>>
    /\ pc' = "done"
    /\ UNCHANGED <<guiVars, args, frame>>

\* sim12: simulate_bending_loss over the two radii.
CallSimulateBendingLoss12 ==
    /\ pc = "idle" /\ variant = "sim12" /\ args.fn = "simulate_bending_loss"
    /\ ret' = simulate_bending_loss(args.fiber_type, args.bend_radii, args.model)
    /\ pc' = "done"
    /\ UNCHANGED <<guiVars, args, frame>>

\* sim13: bending_loss at each of the two radii.
CallBendingLossPair13 ==
    /\ pc = "idle" /\ variant = "sim13" /\ args.fn = "bending_loss"
    /\ LET spec == fiber_types13[args.fiber_type]
       IN  ret' = [i \in 1..2 |->
                     [loss |-> bending_loss13(spec.core_radius, spec.n1, spec.n2,
                                              spec.wavelength, args.bend_radii[i]),
                      rank |-> np_exp_rank(bending_exponent13(spec.core_radius, spec.n1,
                                                              spec.n2, args.bend_radii[i]))]] \o <<>>
    /\ pc' = "done"
    /\ UNCHANGED <<guiVars, args, frame>>

NextBend == CallBendingLoss11 \/ CallSimulateBendingLoss12 \/ CallBendingLossPair13

SpecBend == InitBend /\ [][NextBend]_vars

\* The two radii R1 < R2 of a pair have their losses.
PairDone == pc = "done" /\ Len(ret) = 2 /\ "bend_radii" \in DOMAIN args

\* The exponent of the exponential formula of the pair's script at its
\* i-th radius.
ExponentAt(i) ==
    IF variant = "sim13"
    THEN bending_exponent13(fiber_types13[args.fiber_type].core_radius,
                            fiber_types13[args.fiber_type].n1,
                            fiber_types13[args.fiber_type].n2, args.bend_radii[i])
    ELSE marcuse_exponent(fiber_types12[args.fiber_type].B, args.bend_radii[i],
                          fiber_types12[args.fiber_type].MFD)

\* C18 as stated: for every fibre, angle and model, the loss of one bend at
\* the smaller radius R1 is strictly greater than at the larger radius R2.
C18_StrictlyDecreasingInRadius ==
    PairDone => ret[1].rank > ret[2].rank

\* C18 as amended: the loss at R1 is never below the loss at R2.  Under the
\* empirical formula it is strictly greater when the bend angle is positive,
\* and both losses are 0 when the angle is 0.  Under an exponential formula
\* it is strictly greater as long as the exponent at R2 is at most 700, and
\* both losses are the float 0.0 once the exponent at R1 exceeds 745.133
\* (np.exp underflows).
C18_DecreasingUntilUnderflow ==
    PairDone =>
        /\ ret[1].rank >= ret[2].rank
        /\ IF args.model \in {"Marcuse", "Exponential"}
           THEN /\ ExponentAt(2) <= ExpNormal => ret[1].rank > ret[2].rank
                /\ ExponentAt(1) > ExpUnderflow => (ret[1].rank = 0 /\ ret[2].rank = 0)
           ELSE /\ args.bend_angle_deg > 0 => ret[1].rank > ret[2].rank
                /\ args.bend_angle_deg = 0 => (ret[1].rank = 0 /\ ret[2].rank = 0)

\* C18 witness: sim13's G.652D fibre at two radii R1 < R2 of 100 cm and
\* more, the loss being 0.0 at both.
C18_Witness ==
    /\ PairDone /\ variant = "sim13" /\ args.fiber_type = "G.652D"
    /\ args.bend_radii[1] >= 100 * RDen
    /\ args.bend_radii[1] < args.bend_radii[2]
    /\ ret[1].rank = 0 /\ ret[2].rank = 0

-----------------------------------------------------------------------------
(* Length and temperature dependence of the total loss (Spec, SpecLaw)     *)

\* The last handler was a length sweep over [start, stop], start < stop, at
\* the reference temperature, and it ran to completion: calls of the loss
\* law with rising lengths and every other input fixed.
LengthSweepAtReference ==
    /\ SweepCompleted /\ lastRun.kind = "length"
    /\ lastRun.start < lastRun.stop
    /\ lastRun.ambient_temp = room_temperature

\* C19 as stated: at the reference temperature, every other input fixed,
\* the total loss the law returns for a longer fibre is greater than the
\* one it returns for a shorter fibre.
C19_ReturnedLossIncreasesWithLength ==
    LengthSweepAtReference =>
        \A i \in 1..(Len(lastRun.calls) - 1) :
            StoredLoss(length_sim_data)[i].v < StoredLoss(length_sim_data)[i + 1].v

\* C19 as amended: at the reference temperature the noiseless total loss is
\* strictly increasing in the fibre length.  sim8 returns it as total_loss
\* and sim13 (noise_std = 0) returns it unchanged, so the values they
\* return increase with the length; sim11 returns it plus a noise draw of
\* standard deviation 0.02 * total loss, so its values need not.
C19_NoiselessLossIncreasesWithLength ==
    LengthSweepAtReference =>
        LET n == Len(lastRun.calls)
            loss == StoredLoss(length_sim_data)
        IN  /\ \A i \in 1..(n - 1) :
                  /\ lastRun.calls[i].fiber_length < lastRun.calls[i + 1].fiber_length
                  /\ NoiselessTotal(lastRun.calls[i]).v < NoiselessTotal(lastRun.calls[i + 1]).v
                  /\ variant # "sim11" => loss[i].v < loss[i + 1].v
            /\ variant = "sim11" =>
                  \A i \in 1..n :
                      loss[i].v - NoiselessTotal(lastRun.calls[i]).v
                          = DrawOfSample(i, n) * ((2 * NoiselessTotal(lastRun.calls[i]).v) \div 100)

\* C19 witness: sim11's length sweep at 25 C has stored, for some sample, a
\* loss not above that of the shorter sample before it.
C19_Witness ==
    /\ LengthSweepAtReference /\ variant = "sim11"
    /\ \E i \in 1..(Len(lastRun.calls) - 1) :
          length_sim_data[2][i + 1].v <= length_sim_data[2][i].v

\* C20: in sim8, whose returned total loss carries no noise, a valid call
\* at ambient temperature T returns the total loss of the mirrored
\* temperature 2 * 25 - T (the temperature term is temp_coefficient times
\* the absolute deviation from 25 C times the length), and at T = 25 that
\* is the attenuation term plus the bending term, with nothing added.
C20_TemperatureTermSymmetric ==
    (ValidLawCall /\ variant = "sim8") =>
        LET base == (args.spec.attenuation_coeff * args.fiber_length) \div Den
                      + args.n_turns * LossPerBend90
            mirrored == 2 * 25 - args.ambient_temp
        IN  /\ ret[2] = Num(base + (200 * Abs(mirrored - 25) * args.fiber_length) \div Den)
            /\ args.ambient_temp = 25 => ret[2] = Num(base)

\* C20 witness: a sim8 call below the reference temperature whose total
\* loss exceeds the attenuation and bending terms.
C20_Witness ==
    /\ ValidLawCall /\ variant = "sim8"
    /\ args.ambient_temp < 25 /\ args.fiber_length > 0
    /\ ret[2].v > (args.spec.attenuation_coeff * args.fiber_length) \div Den
                    + args.n_turns * LossPerBend90

-----------------------------------------------------------------------------
(* The conversion of a total loss to the output current (sim8, sim3, sim4) *)
(* Losses are in hundredths of a dB here, so that a loss is also the       *)
(* exponent total_loss / 10 in thousandths.  A current is held as its      *)
(* value in whole nA and its rank among the floats.                        *)

MaxConvLoss == 5

\* 10 ** (-y) is the float 0.0 for y above 323.607 (y in thousandths).
PowUnderflow == 323607

\* Up to y = 300 the power 10 ** (-y) is a normal float.
PowNormal == 300000

\* The rank of I_in * 10 ** (-y) for the fixed I_in > 0: 0 for the float
\* 0.0, one rank for the subnormal powers (not told apart), and above them
\* the normal results, higher for a smaller y.
pow10_rank(y) ==
    IF y > PowUnderflow THEN 0
    ELSE IF y > PowNormal THEN 1
    ELSE 2 + (PowNormal - y)

\* I_out = I_in * 10 ** (-total_loss / 10): no bound is applied to the
\* loss before the power or to the current after it.  Beyond 2000 dB the
\* current is below 1 nA.
I_out_of(total_loss) ==
    [nA |-> IF total_loss > 200000 THEN 0
            ELSE output_current(Num(total_loss * 10000)).v,
     rank |-> pow10_rank(total_loss)]

\* Losses of whole dB around 0, a gain included, and losses around the
\* underflow of the power.
ConvLosses ==
    {100 * k : k \in (-MaxConvLoss)..MaxConvLoss} \cup {300000, 324000, 330000}

ConvInputs ==
    {[fn |-> "I_out", script |-> v, total_loss |-> <<l1, l2>>] :
        v \in {"sim8", "sim3", "sim4"}, l1 \in ConvLosses, l2 \in ConvLosses}

InitConv ==
    /\ variant \in {"sim8", "sim3", "sim4"}
    /\ fiber_type_var = ""
    /\ length_sim_data = None
    /\ bending_sim_data = None
    /\ turns_sim_data = None
    /\ rng = 0
    /\ lastRun = NoRun
    /\ runs = 0
    /\ args \in {a \in ConvInputs : a.script = variant /\ a.total_loss[1] < a.total_loss[2]}
    /\ ret = <<>>
    /\ pc = "idle"
    /\ frame = NoFrame

\* The conversion line of the script, at each of the two losses.
CallConversion ==
    /\ pc = "idle" /\ args.fn = "I_out"
    /\ ret' = <<I_out_of(args.total_loss[1]), I_out_of(args.total_loss[2])>>
    /\ pc' = "done"
    /\ UNCHANGED <<guiVars, args, frame>>

NextConv == CallConversion

SpecConv == InitConv /\ [][NextConv]_vars

\* Two losses l1 < l2 have been converted.
PairConverted == pc = "done" /\ args.fn = "I_out" /\ Len(ret) = 2

\* C21 as stated: the conversion is not clamped, returns the input current
\* at loss 0, and of two losses the greater one gives the strictly smaller
\* current.
C21_StrictlyDecreasingInLoss ==
    PairConverted =>
        /\ \A i \in 1..2 : args.total_loss[i] = 0 => ret[i].nA = I_in * 1000
        /\ \A i \in 1..2 : args.total_loss[i] < 0 => ret[i].nA > I_in * 1000
        /\ ret[1].rank > ret[2].rank

\* C21 as amended: the conversion is not clamped (a negative loss gives
\* more than the input current), returns the input current at loss 0, and
\* never gives the greater loss the greater current.  The current is
\* strictly smaller for the greater loss as long as the power is a normal
\* float (loss up to 3000 dB), and it is the float 0.0 for every loss above
\* 3236.07 dB, where the power underflows.
C21_DecreasingUntilUnderflow ==
    PairConverted =>
        /\ \A i \in 1..2 : args.total_loss[i] = 0 => ret[i].nA = I_in * 1000
        /\ \A i \in 1..2 : args.total_loss[i] < 0 => ret[i].nA > I_in * 1000
        /\ ret[1].rank >= ret[2].rank /\ ret[1].nA >= ret[2].nA
        /\ args.total_loss[2] <= PowNormal => ret[1].rank > ret[2].rank
        /\ args.total_loss[2] <= 100 * MaxConvLoss => ret[1].nA > ret[2].nA
        /\ args.total_loss[1] > PowUnderflow =>
              (ret[1].rank = 0 /\ ret[2].rank = 0 /\ ret[1].nA = 0 /\ ret[2].nA = 0)

\* C21 witness: losses of 3240 dB and 3300 dB both convert to 0.0.
C21_Witness ==
    /\ PairConverted
    /\ args.total_loss = <<324000, 330000>>
    /\ ret[1].rank = 0 /\ ret[2].rank = 0

-----------------------------------------------------------------------------
(* Properties of the Monte Carlo run (SpecMC)                              *)

\* The draw behind the i-th bend of the last ray simulated.
DrawOfBend(i) == Draw(rng - args.number_of_bends + i - 1)

\* C22: every radius a bend of a Monte Carlo ray divides by is at least the
\* floor of 1.0 cm, whatever was drawn (a zero or a negative radius
\* included), it is the drawn radius when that is above the floor, and the
\* loss of the bend is finite, not negative, and at most the loss at the
\* floor.
C22_RadiusAtLeastFloor ==
    (args.fn = "monte_carlo" /\ pc \in {"loop", "done"} /\ frame.step > 0) =>
        /\ Len(frame.bend_radii) = args.number_of_bends
        /\ \A i \in 1..args.number_of_bends :
              LET drawn == args.radius_loc + args.radius_scale * DrawOfBend(i)
                  loss == random_bending_loss(args.base_bending_loss, args.ideal_bend_radius,
                                              args.radius_loc, args.radius_scale, DrawOfBend(i))
              IN  /\ frame.bend_radii[i] >= 100
                  /\ drawn > 100 => frame.bend_radii[i] = drawn
                  /\ drawn <= 100 => frame.bend_radii[i] = 100
                  /\ loss = (args.base_bending_loss * args.ideal_bend_radius) \div frame.bend_radii[i]
                  /\ 0 <= loss
                  /\ loss <= (args.base_bending_loss * args.ideal_bend_radius) \div 100

\* C22 witness: a ray one of whose bends drew a negative radius, another a
\* zero radius, and both divided by the floor.
C22_Witness ==
    /\ args.fn = "monte_carlo" /\ pc = "done" /\ frame.step > 0
    /\ \E i, j \in 1..args.number_of_bends :
          /\ args.radius_loc + args.radius_scale * DrawOfBend(i) < 0
          /\ args.radius_loc + args.radius_scale * DrawOfBend(j) = 0
          /\ frame.bend_radii[i] = 100 /\ frame.bend_radii[j] = 100


\* The Monte Carlo run has reported its statistics.
MonteCarloDone == args.fn = "monte_carlo" /\ pc = "done"

\* The loss of the j-th bend of the i-th ray of a finished run: the draw
\* it takes is the one at its own position of the generator.
EventLoss(i, j) ==
    random_bending_loss(args.base_bending_loss, args.ideal_bend_radius,
                        args.radius_loc, args.radius_scale,
                        Draw(rng - (args.num_rays - i + 1) * args.number_of_bends + j - 1))

\* The sequence q taken in the order p.
Reordered(q, p) == [i \in 1..Len(q) |-> q[p[i]]] \o <<>>

\* C23: a finished run with num_rays = N has recorded N signals and N
\* losses; the loss of a ray is the attenuation term plus the temperature
\* term plus the sum of number_of_bends event losses, each from a draw of
\* its own; the signal of a ray is the conversion of its loss; the mean
\* and the deviation reported are those of the N signals, and they are the
\* same for the signals taken in any other order.
C23_TrialsAndStatistics ==
    MonteCarloDone =>
        LET N == args.num_rays
            fixed == MulMicro(args.attenuation_coeff, args.fiber_length)
                       + MulMicro(args.temp_coefficient * Abs(args.ambient_temp - args.room_temp),
                                  args.fiber_length)
        IN  /\ Len(frame.ray_outputs) = N /\ Len(frame.ray_losses) = N
            /\ \A i \in 1..N :
                  /\ frame.ray_losses[i]
                       = fixed + SumSeq([j \in 1..args.number_of_bends |-> EventLoss(i, j)] \o <<>>)
                  /\ frame.ray_outputs[i] = output_current(Num(frame.ray_losses[i])).v
            /\ ret = <<np_mean(frame.ray_outputs), np_std(frame.ray_outputs)>>
            /\ N > 0 => ret[1] = Num(SumSeq(frame.ray_outputs) \div N)
            /\ \A p \in Permutations(1..N) :
                  /\ np_mean(Reordered(frame.ray_outputs, p)) = ret[1]
                  /\ np_std(Reordered(frame.ray_outputs, p)) = ret[2]

\* C23 witness: a finished run of at least two rays whose losses differ
\* and whose deviation is positive.
C23_Witness ==
    /\ MonteCarloDone /\ args.num_rays >= 2
    /\ Len(frame.ray_losses) = args.num_rays
    /\ frame.ray_losses[1] # frame.ray_losses[2]
    /\ ret[2].k = "num" /\ ret[2].v > 0


\* sim2: base_bending_loss * (ideal_bend_radius / bend_radius) *
\* (bend_angle_deg / 90.0), with sim2's constants 0.2 dB and 10.0 cm; for a
\* positive radius, in hundredths of a centimetre.
bending_loss2(bend_radius, bend_angle_deg) ==
    (((200000 * bend_angle_deg) \div 90) * 1000) \div bend_radius

\* sim2: the total_loss of simulate_output_current, with sim2's constants
\* (0.00385 dB/km, 5 bends of 90 degrees, 0.0002 dB/km/C around 25 C).
total_loss2(fiber_length, bend_radius, ambient_temp) ==
    LET loss_attenuation == MulMicro(3850, fiber_length)
        temp_loss == MulMicro(200 * Abs(ambient_temp - room_temperature), fiber_length)
        total_bending_loss2 == default_turns * bending_loss2(bend_radius, bend_angle)
    IN  loss_attenuation + total_bending_loss2 + temp_loss

\* C24: in a finished run with radius deviation 0 every ray has the total
\* loss sim2's deterministic law gives for the same length, temperature and
\* five 90-degree bends at the radius the rays use, which is the mean
\* radius (the floor of 1.0 cm for a mean below it), and the signal
\* converted from that loss; the mean reported is that signal and the
\* deviation reported is 0.
C24_ZeroDeviationIsDeterministic ==
    (MonteCarloDone /\ args.radius_scale = 0) =>
        LET R == IF args.radius_loc >= 100 THEN args.radius_loc ELSE 100
            total == total_loss2(args.fiber_length, R, args.ambient_temp)
            signal == output_current(Num(total)).v
        IN  /\ \A i \in 1..args.num_rays :
                  /\ frame.ray_losses[i] = total
                  /\ frame.ray_outputs[i] = signal
            /\ args.num_rays > 0 => ret = <<Num(signal), Num(0)>>

\* C24 witness: a finished run of at least two rays at mean radius 5.0 cm
\* and deviation 0, with a positive mean and deviation 0 reported.
C24_Witness ==
    /\ MonteCarloDone /\ args.radius_scale = 0 /\ args.radius_loc = 500
    /\ args.num_rays >= 2
    /\ ret[1].k = "num" /\ ret[1].v > 0 /\ ret[2] = Num(0)
    /\ frame.ray_losses[1] = total_loss2(args.fiber_length, 500, args.ambient_temp)

-----------------------------------------------------------------------------
(* The fiber catalogs (SpecBend)                                           *)

\* C25: every entry of the catalogs of sim8/sim11, sim12 and sim13 has a
\* positive attenuation coefficient; every radius, mode field diameter and
\* wavelength it carries is positive; every sim13 entry has n1 > n2; and
\* every entry carries the fields of each bending model its script offers:
\* base loss and ideal radius (empirical, sim11 and sim12), A, B and MFD
\* (Marcuse, sim12), core radius, indices and wavelength (sim13).  The
\* fibre a call names is an entry of its script's catalog.
C25_CatalogsWellFormed ==
    /\ args.fiber_type \in DOMAIN (IF variant = "sim13" THEN fiber_types13
                                   ELSE IF variant = "sim12" THEN fiber_types12
                                   ELSE fiber_types)
    /\ \A n \in DOMAIN fiber_types :
          /\ {"attenuation_coeff", "base_bending_loss", "ideal_bend_radius"}
                \subseteq DOMAIN fiber_types[n]
          /\ fiber_types[n].attenuation_coeff > 0
          /\ fiber_types[n].ideal_bend_radius > 0
    /\ \A n \in DOMAIN fiber_types12 :
          /\ {"attenuation_coeff", "base_bending_loss", "ideal_bend_radius", "A", "B", "MFD"}
                \subseteq DOMAIN fiber_types12[n]
          /\ fiber_types12[n].attenuation_coeff > 0
          /\ fiber_types12[n].ideal_bend_radius > 0
          /\ fiber_types12[n].MFD > 0
    /\ \A n \in DOMAIN fiber_types13 :
          /\ {"attenuation_coeff", "core_radius", "n1", "n2", "wavelength"}
                \subseteq DOMAIN fiber_types13[n]
          /\ fiber_types13[n].attenuation_coeff > 0
          /\ fiber_types13[n].core_radius > 0
          /\ fiber_types13[n].wavelength > 0
          /\ fiber_types13[n].n1 > fiber_types13[n].n2

\* C25 witness: sim13's bending loss has been computed from the G.655
\* entry, whose n1 exceeds its n2, and is a number.
C25_Witness ==
    /\ PairDone /\ variant = "sim13" /\ args.fiber_type = "G.655"
    /\ fiber_types13["G.655"].n1 > fiber_types13["G.655"].n2
    /\ ret[1].loss.k = "num"

-----------------------------------------------------------------------------
(* The loop of hybrid_simulation (SpecHybrid)                              *)

\* The number of selected event indices below step k.
EventsBefore(k) ==
    Cardinality({j \in 1..Len(frame.bend_event_indices) : frame.bend_event_indices[j] < k})

\* C26: while hybrid_simulation loops and when it has returned, the profile
\* has one entry for each step done so far, num_steps of them at the end;
\* the entry of step k exceeds the one before it (0 before step 0) by the
\* attenuation and temperature loss of one segment of length
\* fiber_length_km / num_steps, plus an event loss exactly when k is one of
\* the selected indices, the event loss being one draw of its own; the
\* running total is the last entry, the profile returned is that profile,
\* and the signal returned is the conversion of the last entry plus its
\* noise.
C26_OneEntryPerStep ==
    (args.fn = "hybrid_simulation" /\ pc \in {"loop", "done"} /\ frame # NoFrame) =>
        LET prof == frame.loss_profile
            dz == (args.fiber_length_km * 1000000) \div args.num_steps
            per_step == MulMicro(args.attenuation_coeff, dz)
                        + MulMicro(args.temp_coefficient
                                     * Abs(args.ambient_temp - args.room_temp), dz)
            first == rng - EventsBefore(frame.step) - (IF pc = "done" THEN 1 ELSE 0)
        IN  /\ Len(prof) = frame.step /\ frame.step <= args.num_steps
            /\ \A k \in 0..(frame.step - 1) :
                  prof[k + 1] - (IF k = 0 THEN 0 ELSE prof[k])
                     = per_step
                       + (IF \E j \in 1..Len(frame.bend_event_indices) :
                                frame.bend_event_indices[j] = k
                          THEN event_loss(Draw(first + EventsBefore(k)))
                          ELSE 0)
            /\ frame.total_loss_dB = (IF frame.step = 0 THEN 0 ELSE prof[frame.step])
            /\ pc = "done" =>
                  /\ frame.step = args.num_steps /\ Len(ret) = 3
                  /\ ret[2] = prof
                  /\ LET I_out == output_current(Num(prof[args.num_steps]))
                     IN  ret[1] = Plus(I_out, np_random_normal(args.noise_std, I_out,
                                                               Draw(rng - 1)))

\* C26 witness: a call with four steps and two events has returned a
\* profile of four entries, two of whose steps added an event loss.
C26_Witness ==
    /\ HybridReturned /\ args.num_steps = 4 /\ args.num_bend_events = 2
    /\ Len(ret[2]) = 4 /\ EventsBefore(4) = 2

-----------------------------------------------------------------------------
(* Selection of the bending model in sim12 (SpecBend)                      *)

\* C27 as stated: simulate_bending_loss applies a formula only for the tag
\* of that formula, so a call whose model tag is neither "Marcuse" nor
\* "Empirical" produces no loss values.
C27_UnknownTagSelectsNothing ==
    (/\ pc = "done" /\ variant = "sim12" /\ args.fn = "simulate_bending_loss"
     /\ args.model \notin {"Marcuse", "Empirical"}) =>
        ret = <<>>

-----------------------------------------------------------------------------
(* A session at the window: fibre selections, the three Run buttons and    *)
(* the four Save buttons, pressed in any order.  runs counts the buttons   *)
(* pressed; args and ret hold the last press and what it produced.         *)

MaxPresses == 2

\* Entry texts of a session: the values the widgets start with, a zero bend
\* radius, the turn range reversed, and one unparsable entry per handler.
SessionLengthRequests ==
    {q \in LengthRequests :
        \/ q.bad # ""
        \/ /\ q.start = 1
           /\ q.stop = length_end_default
           /\ q.bend_radius \in {bend_default, 0}
           /\ q.ambient_temp = temp_default}

SessionBendingRequests ==
    {q \in BendingRequests :
        q.bad # "" \/ (q.start = bend_from_default /\ q.stop = bend_to_default)}

SessionTurnsRequests ==
    {q \in TurnsRequests :
        \/ q.bad # ""
        \/ /\ q.bend_radius = bend_default
           /\ <<q.start, q.stop>> \in {<<turn_from_default, turn_to_default>>,
                                       <<turn_to_default, turn_from_default>>}}

\* What filedialog.asksaveasfilename returns: "" when the dialog is
\* cancelled, else the chosen path.
FilePaths == {"", "graph.png"}

\* One set of axes of a saved figure: the arrays plotted are the buffer's and
\* the title names fiber_type_var.get() as it is when the figure is drawn.
Panel(kind, data) == [kind |-> kind, title |-> fiber_type_var, data |-> data]

\* What a save function did: the text it put in result_label ("" when it
\* left the label alone), whether savefig was called, and the axes drawn.
Saved(label, saved, figure) == [label |-> label, saved |-> saved, figure |-> figure]

\* save_length_graph, save_bending_graph and save_turns_graph share this
\* body: an unset buffer is reported and nothing else happens; otherwise the
\* dialog opens and, unless it is cancelled, the buffer is plotted and saved.
SaveGraph(fn, kind, data) ==
    /\ runs < MaxPresses
    /\ runs' = runs + 1
    /\ \/ /\ data = None
          /\ args' = [fn |-> fn]
          /\ ret' = <<Saved("run first", FALSE, <<>>)>>
       \/ /\ data # None
          /\ \E file_path \in FilePaths :
               /\ args' = [fn |-> fn, file_path |-> file_path]
               /\ ret' = IF file_path = ""
                         THEN <<Saved("", FALSE, <<>>)>>
                         ELSE <<Saved("saved", TRUE, <<Panel(kind, data)>>)>>
    /\ UNCHANGED <<variant, fiber_type_var, length_sim_data, bending_sim_data,
                   turns_sim_data, rng, lastRun, pc, frame>>

save_length_graph == SaveGraph("save_length_graph", "length", length_sim_data)

save_bending_graph == SaveGraph("save_bending_graph", "bending", bending_sim_data)

save_turns_graph == SaveGraph("save_turns_graph", "turns", turns_sim_data)

\* The axes save_entire_graph draws: one per buffer that is set.  sim8 saves
\* the figure on the screen instead, which is not drawn from the buffers.
EntirePanels ==
    IF variant = "sim8" THEN <<[kind |-> "screen"]>>
    ELSE (IF length_sim_data # None THEN <<Panel("length", length_sim_data)>> ELSE <<>>)
         \o (IF bending_sim_data # None THEN <<Panel("bending", bending_sim_data)>> ELSE <<>>)
         \o (IF turns_sim_data # None THEN <<Panel("turns", turns_sim_data)>> ELSE <<>>)

\* save_entire_graph opens the dialog whatever the buffers hold.
save_entire_graph ==
    /\ runs < MaxPresses
    /\ runs' = runs + 1
    /\ \E file_path \in FilePaths :
         /\ args' = [fn |-> "save_entire_graph", file_path |-> file_path]
         /\ ret' = IF file_path = ""
                   THEN <<Saved("", FALSE, <<>>)>>
                   ELSE <<Saved("saved", TRUE, EntirePanels)>>
    /\ UNCHANGED <<variant, fiber_type_var, length_sim_data, bending_sim_data,
                   turns_sim_data, rng, lastRun, pc, frame>>

\* A Run button pressed during a session.
press_run_length ==
    /\ runs < MaxPresses
    /\ runs' = runs + 1
    /\ LengthHandler(SessionLengthRequests)
    /\ args' = [fn |-> "run_length_simulation"]
    /\ ret' = <<>>
    /\ UNCHANGED <<pc, frame>>

press_run_bending ==
    /\ runs < MaxPresses
    /\ runs' = runs + 1
    /\ BendingHandler(SessionBendingRequests)
    /\ args' = [fn |-> "run_bending_simulation"]
    /\ ret' = <<>>
    /\ UNCHANGED <<pc, frame>>

press_run_turns ==
    /\ runs < MaxPresses
    /\ runs' = runs + 1
    /\ TurnsHandler(SessionTurnsRequests)
    /\ args' = [fn |-> "run_turns_simulation"]
    /\ ret' = <<>>
    /\ UNCHANGED <<pc, frame>>

\* The window just opened; the random generator is unseeded, one position of
\* it stands for all.
InitSession ==
    /\ InitGui
    /\ rng = 0
    /\ args = [fn |-> "none"]
    /\ ret = <<>>
    /\ pc = "idle"
    /\ frame = NoFrame

NextSession ==
    \/ update_fiber
    \/ press_run_length
    \/ press_run_bending
    \/ press_run_turns
    \/ save_length_graph
    \/ save_bending_graph
    \/ save_turns_graph
    \/ save_entire_graph

SpecSession == InitSession /\ [][NextSession]_vars

\* The buffers as a whole.
Buffers == <<length_sim_data, bending_sim_data, turns_sim_data>>

RunButtons == {"run_length_simulation", "run_bending_simulation", "run_turns_simulation"}

SaveButtons == {"save_length_graph", "save_bending_graph", "save_turns_graph",
                "save_entire_graph"}

\* A step of the session in which the button fn was pressed.
Pressed(fn) == runs' = runs + 1 /\ args'.fn = fn

\* C28: a press of a Run button changes at most its own buffer (the length
\* run leaves the bending and turns buffers as they were, and so on); a run
\* whose entries fail to parse leaves all three buffers as they were; and a
\* press of any Save button leaves all three buffers as they were.
C28_HandlersFrameTheBuffers ==
    [][/\ Pressed("run_length_simulation")
            => UNCHANGED <<bending_sim_data, turns_sim_data>>
       /\ Pressed("run_bending_simulation")
            => UNCHANGED <<length_sim_data, turns_sim_data>>
       /\ Pressed("run_turns_simulation")
            => UNCHANGED <<length_sim_data, bending_sim_data>>
       /\ ((\E fn \in RunButtons : Pressed(fn)) /\ lastRun'.outcome = "invalid input")
            => UNCHANGED Buffers
       /\ (\E fn \in SaveButtons : Pressed(fn)) => UNCHANGED Buffers]_vars

\* A bending run has just finished after a length run: both buffers are set,
\* the length buffer having survived the bending run.
C28_Witness ==
    /\ args.fn = "run_bending_simulation"
    /\ lastRun.kind = "bending"
    /\ lastRun.outcome = "ok"
    /\ length_sim_data # None
    /\ bending_sim_data # None
    /\ turns_sim_data = None

IndividualSaves == {"save_length_graph", "save_bending_graph", "save_turns_graph"}

\* The buffer an individual save function reads.
BufferRead(fn) ==
    CASE fn = "save_length_graph" -> length_sim_data
      [] fn = "save_bending_graph" -> bending_sim_data
      [] fn = "save_turns_graph" -> turns_sim_data

\* The last press was an individual save that wrote a file.
GraphSaved == args.fn \in IndividualSaves /\ ret # <<>> /\ ret[1].saved

\* C29: at every point of a session, an individual save pressed while its
\* buffer is unset only reports that the simulation must be run first; every
\* buffer that is set holds a non-empty sample sequence; and every individual
\* graph that was saved shows a non-empty sample sequence, its buffer having
\* been set by a run that finished without error.
C29_SavedOnlyAfterCompletedRun ==
    /\ (args.fn \in IndividualSaves /\ BufferRead(args.fn) = None)
         => (ret[1].label = "run first" /\ ~ret[1].saved)
    /\ \A b \in {length_sim_data, bending_sim_data, turns_sim_data} :
         b # None => Len(b[1]) > 0
    /\ GraphSaved => Len(ret[1].figure[1].data[1]) > 0
    /\ (GraphSaved /\ lastRun.kind = ret[1].figure[1].kind) => lastRun.outcome = "ok"

\* The last run assigned its buffer: lastRun.fiber is the fibre type whose
\* parameters computed the data that buffer now holds.
LastRunFilledBuffer == lastRun.kind # "none" /\ lastRun.outcome \in {"ok", "IndexError"}

\* C30: at every point of a session, every graph saved from a buffer is
\* titled with the fibre type whose parameters computed the data in that
\* buffer (the selection read by the run that filled it).
C30_TitleNamesComputingFibre ==
    (ret # <<>> /\ ret[1].saved /\ LastRunFilledBuffer)
        => \A i \in 1..Len(ret[1].figure) :
              ret[1].figure[i].kind = lastRun.kind
                  => ret[1].figure[i].title = lastRun.fiber
====
